---- MODULE Spec2Model ----
(***************************************************************************)
(* Model of the bilibili-analyzer analysis pipeline.                       *)
(*                                                                         *)
(* Part 1: AIAnalyzer (ai_analyzer.py): the task registry, the retrying    *)
(* executor _execute_task_with_retry and the worker pool of run_parallel.  *)
(*                                                                         *)
(* Conventions                                                             *)
(*  - A text (Python str holding CLI output) is a sequence of tokens; each *)
(*    token has a kind k, a character length n and, for a token that is    *)
(*    the text of one JSON value, the value j it denotes.                  *)
(*  - Numbers are kept in tenths (0.5 is 5, 0.3 is 3, the integer 1 is 10).*)
(*  - Python None is the record None; the empty str is "".                 *)
(*  - Chinese message literals of the source are given in English.         *)
(***************************************************************************)
EXTENDS Integers, Sequences, FiniteSets, TLC

\* ------------------------------------------------------------------ bounds
\* Longest frame list handed to one create_tasks call.
MaxFrames == 2
\* Most AnalysisTask objects one analyzer creates over all create_tasks calls.
MaxTasks == 3
\* Widest worker pool (max_workers).
MaxWorkers == 2

\* ------------------------------------------------------- program constants
\* AIAnalyzer.MAX_RETRY_COUNT
MAX_RETRY_COUNT == 1
\* response_text[:500] in the fallback of _parse_analysis_result
DescriptionLimit == 500

\* -------------------------------------------------------------- TaskStatus
PENDING == "pending"
RUNNING == "running"
COMPLETED == "completed"
FAILED == "failed"

TaskStatus == {PENDING, RUNNING, COMPLETED, FAILED}

\* ------------------------------------------------------------ Python values
\* A Python value as far as the analyzer looks at it: ty is its type, num its
\* numeric value in tenths, str a str/list literal's content, text the
\* content of a str that was cut out of a CLI response.
PyVal(ty, num, str, text) == [ty |-> ty, num |-> num, str |-> str, text |-> text]

Absent == PyVal("absent", 0, "", <<>>)
PyNull == PyVal("null", 0, "", <<>>)
PyStr(s) == PyVal("str", 0, s, <<>>)
PyNum(tenths) == PyVal("num", tenths, "", <<>>)
PyList(items) == PyVal("list", 0, items, <<>>)
PyText(t) == PyVal("str", 0, "", t)

\* The keys _parse_analysis_result reads.
Keys == {"description", "objects", "text_content", "people_count",
         "scene_type", "key_points", "confidence"}

\* A decoded JSON document: its type and, for an object, its members
\* (Absent marks a key the object does not have).
NoMembers == [key \in Keys |-> Absent]

JsonDoc(ty, members) == [ty |-> ty, members |-> members]

NoJson == JsonDoc("none", NoMembers)

\* ------------------------------------------------------------------- texts
Tok(k, n, j) == [k |-> k, n |-> n, j |-> j]

Ws == Tok("ws", 1, NoJson)
FenceJson == Tok("fence_json", 7, NoJson)
Fence == Tok("fence", 3, NoJson)
Prose(n) == Tok("prose", n, NoJson)
JsonTok(doc, n) == Tok("json", n, doc)

\* The json fence (three backticks followed by json) contains the plain
\* fence (three backticks) as a substring.
HasFence3(tok) == tok.k \in {"fence", "fence_json"}

RECURSIVE TextLen(_)
TextLen(text) ==
    IF text = <<>> THEN 0 ELSE Head(text).n + TextLen(Tail(text))

\* str.strip()
RECURSIVE LStrip(_)
LStrip(text) ==
    IF text # <<>> /\ Head(text).k = "ws" THEN LStrip(Tail(text)) ELSE text

RECURSIVE RStrip(_)
RStrip(text) ==
    IF text # <<>> /\ text[Len(text)].k = "ws"
    THEN RStrip(SubSeq(text, 1, Len(text) - 1))
    ELSE text

Strip(text) == RStrip(LStrip(text))

\* text[:limit]
RECURSIVE Truncate(_, _)
Truncate(text, limit) ==
    IF text = <<>> \/ limit <= 0 THEN <<>>
    ELSE IF Head(text).n <= limit
         THEN <<Head(text)>> \o Truncate(Tail(text), limit - Head(text).n)
         ELSE <<Tok(Head(text).k, limit, NoJson)>>

\* Index of the first token satisfying the test at or after position i
\* (Len(text) + 1 when there is none).
RECURSIVE FirstFence3(_, _)
FirstFence3(text, i) ==
    IF i > Len(text) THEN Len(text) + 1
    ELSE IF HasFence3(text[i]) THEN i ELSE FirstFence3(text, i + 1)

RECURSIVE FirstFenceJson(_, _)
FirstFenceJson(text, i) ==
    IF i > Len(text) THEN Len(text) + 1
    ELSE IF text[i].k = "fence_json" THEN i ELSE FirstFenceJson(text, i + 1)

\* text.split(json fence)[1].split(fence)[0]
AfterFenceJson(text) ==
    LET a == FirstFenceJson(text, 1)
        b == FirstFence3(text, a + 1)
    IN SubSeq(text, a + 1, b - 1)

\* text.split(fence)[1].split(fence)[0]
AfterFence(text) ==
    LET a == FirstFence3(text, 1)
        b == FirstFence3(text, a + 1)
    IN SubSeq(text, a + 1, b - 1)

\* ------------------------------------------------------------- json.loads
\* Decodes a text that is one JSON value, surrounding whitespace allowed;
\* anything else raises JSONDecodeError.
JsonLoads(text) ==
    LET t == Strip(text)
    IN IF Len(t) = 1 /\ t[1].k = "json"
       THEN [exc |-> "", data |-> t[1].j]
       ELSE [exc |-> "JSONDecodeError", data |-> NoJson]

\* dict.get(key, default)
DictGet(data, key, default) ==
    IF data.members[key].ty = "absent" THEN default ELSE data.members[key]

\* str contents float() accepts.
Numerals == {"0.9"}

NumeralValue(s) == IF s = "0.9" THEN 9 ELSE 0

\* float(v)
Float(v) ==
    CASE v.ty = "num" -> [exc |-> "", num |-> v.num]
      [] v.ty = "str" /\ v.str \in Numerals ->
            [exc |-> "", num |-> NumeralValue(v.str)]
      [] v.ty = "str" -> [exc |-> "ValueError", num |-> 0]
      [] v.ty = "bool" -> [exc |-> "", num |-> v.num]
      [] OTHER -> [exc |-> "TypeError", num |-> 0]

\* ------------------------------------------------------------------ models
None == PyVal("None", 0, "", <<>>)

FrameInfo(frame_id, timestamp) == [frame_id |-> frame_id, timestamp |-> timestamp]

FrameAnalysis(frame_id, timestamp, description, objects, text_content, people_count, scene_type, key_points, confidence) ==
    [frame_id |-> frame_id, timestamp |-> timestamp,
     description |-> description, objects |-> objects,
     text_content |-> text_content, people_count |-> people_count,
     scene_type |-> scene_type, key_points |-> key_points,
     confidence |-> confidence]

\* task.result is None
NoResult == FrameAnalysis(-1, -1, None, None, None, None, None, None, -1)

AnalysisTask(task_id, frame_info, status, result, retry_count, error_message) ==
    [task_id |-> task_id, frame_info |-> frame_info, status |-> status,
     result |-> result, retry_count |-> retry_count,
     error_message |-> error_message]

\* BilibiliAnalyzerError._format_message
FormatMessage(message, context) ==
    IF context # "" THEN "[" \o context \o "] " \o message ELSE message

\* str(AnalysisError(message))
AnalysisErrorStr(message) == FormatMessage(message, "AI analysis")

\* ------------------------------------------------- the vision primitive
\* What one subprocess.run of the claude CLI can do: return with exit code 0
\* and some stdout, return with another exit code, or raise.
CliKinds == {"exit0", "nonzero", "FileNotFoundError", "TimeoutExpired", "OSError"}

CliOutcome(kind, stdout) == [kind |-> kind, stdout |-> stdout]

\* A JSON object of the shape the prompt asks for.
GoodDoc ==
    JsonDoc("object",
            [description |-> PyStr("a scene"), objects |-> PyList("cat"),
             text_content |-> PyList(""), people_count |-> PyNum(10),
             scene_type |-> PyStr("indoor"), key_points |-> PyList("point"),
             confidence |-> PyNum(8)])

\* AIAnalyzer._generate_mock_response (the file name in the description is
\* not modelled)
MockDoc ==
    JsonDoc("object",
            [description |-> PyStr("video frame screenshot"),
             objects |-> PyList("video content"),
             text_content |-> PyList(""), people_count |-> PyNum(0),
             scene_type |-> PyStr("video_frame"),
             key_points |-> PyList("this is a video frame screenshot"),
             confidence |-> PyNum(5)])

GenerateMockResponse == <<JsonTok(MockDoc, 120)>>

\* _call_claude_code with the timeout answered by the mock response as well
TimeoutBecomesMock(cli) ==
    IF cli.kind = "exit0"
    THEN [exc |-> "", msg |-> "", text |-> Strip(cli.stdout)]
    ELSE [exc |-> "", msg |-> "", text |-> GenerateMockResponse]

\* AIAnalyzer._call_claude_code: the response text, or the AnalysisError raised
CallClaudeCode(cli) ==
    CASE cli.kind = "exit0" ->
            [exc |-> "", msg |-> "", text |-> Strip(cli.stdout)]
      [] cli.kind = "nonzero" ->
            [exc |-> "", msg |-> "", text |-> GenerateMockResponse]
      [] cli.kind = "FileNotFoundError" ->
            [exc |-> "", msg |-> "", text |-> GenerateMockResponse]
      [] cli.kind = "TimeoutExpired" ->
            [exc |-> "AnalysisError",
             msg |-> AnalysisErrorStr("Claude analysis timed out"),
             text |-> <<>>]
      [] OTHER ->
            [exc |-> "", msg |-> "", text |-> GenerateMockResponse]

\* The text _parse_analysis_result hands to json.loads: the stripped
\* response, or the content of its first markdown code block
JsonPart(response_text) ==
    LET stripped == Strip(response_text)
    IN IF \E i \in 1..Len(stripped) : stripped[i].k = "fence_json"
       THEN Strip(AfterFenceJson(stripped))
       ELSE IF \E i \in 1..Len(stripped) : stripped[i].k = "fence"
            THEN Strip(AfterFence(stripped))
            ELSE stripped

\* The except branch of _parse_analysis_result
FallbackAnalysis(response_text, frame_info) ==
    FrameAnalysis(frame_info.frame_id, frame_info.timestamp,
                  IF response_text # <<>>
                  THEN PyText(Truncate(response_text, DescriptionLimit))
                  ELSE PyStr("failed to parse the analysis result"),
                  PyList(""), PyList(""), PyNum(0), PyStr("unknown"),
                  PyList(""), 3)

\* AIAnalyzer._parse_analysis_result: the FrameAnalysis, or the exception
\* that escapes its except (json.JSONDecodeError, KeyError, ValueError)
ParseAnalysisResult(response_text, frame_info) ==
    LET loaded == JsonLoads(JsonPart(response_text))
        data == loaded.data
        conf == Float(DictGet(data, "confidence", PyNum(5)))
    IN IF loaded.exc # ""
       THEN [exc |-> "", result |-> FallbackAnalysis(response_text, frame_info)]
       ELSE IF data.ty # "object"
       THEN [exc |-> "AttributeError", result |-> NoResult]
       ELSE IF conf.exc = "ValueError"
       THEN [exc |-> "", result |-> FallbackAnalysis(response_text, frame_info)]
       ELSE IF conf.exc # ""
       THEN [exc |-> conf.exc, result |-> NoResult]
       ELSE [exc |-> "",
             result |-> FrameAnalysis(
                 frame_info.frame_id, frame_info.timestamp,
                 DictGet(data, "description", PyStr("")),
                 DictGet(data, "objects", PyList("")),
                 DictGet(data, "text_content", PyList("")),
                 DictGet(data, "people_count", PyNum(0)),
                 DictGet(data, "scene_type", PyStr("")),
                 DictGet(data, "key_points", PyList("")),
                 conf.num)]

\* What the world does during one analyze_frame call: whether the frame
\* image exists, and what the CLI does if it is invoked.
Attempt(file_exists, cli) == [file_exists |-> file_exists, cli |-> cli]

\* AIAnalyzer.analyze_frame: the FrameAnalysis returned, or the AnalysisError
\* raised (exc, with str(e) in msg)
AnalyzeFrame(task, env) ==
    LET called == CallClaudeCode(env.cli)
        parsed == ParseAnalysisResult(called.text, task.frame_info)
    IN IF ~env.file_exists
       THEN [exc |-> "AnalysisError",
             msg |-> AnalysisErrorStr("frame image does not exist"),
             result |-> NoResult]
       ELSE IF called.exc # ""
       THEN [exc |-> "AnalysisError",
             msg |-> AnalysisErrorStr("frame analysis failed: " \o called.msg),
             result |-> NoResult]
       ELSE IF parsed.exc # ""
       THEN [exc |-> "AnalysisError",
             msg |-> AnalysisErrorStr("frame analysis failed: " \o parsed.exc),
             result |-> NoResult]
       ELSE [exc |-> "", msg |-> "", result |-> parsed.result]

\* ------------------------------------------------------------------- state
VARIABLES
    max_workers,   \* self.max_workers
    on_progress,   \* whether self.on_progress is set
    heap,          \* the AnalysisTask objects, by reference (allocation order)
    registry,      \* self._tasks: task_id -> reference of the task object
    uuids,         \* how many uuid4 values were drawn
    frames_arg,    \* the frames given to the last create_tasks call
    created,       \* the list the last create_tasks call returned (references)
    frame,         \* per task object, the activation of _execute_task_with_retry
    attempts,      \* per task object, the analyze_frame calls made for it
    rp             \* the activation of run_parallel

\* frame_similarity.py
VARIABLES
    IMAGEHASH_AVAILABLE,  \* whether imagehash and PIL were imported
    detector,             \* the FrameSimilarityDetector, once constructed
    detection             \* the last detect_and_merge call: arguments and result

simvars == <<IMAGEHASH_AVAILABLE, detector, detection>>

anavars == <<max_workers, on_progress, heap, registry, uuids, frames_arg, created, frame, attempts, rp>>

\* incremental_report.py
VARIABLES
    generator,     \* the IncrementalReportGenerator object
    report_file,   \* the file at report_path
    calls,         \* the calls made on the generator, with their outcomes
    before         \* the file and the generator as the last call found them

repvars == <<generator, report_file, calls, before>>

\* video_downloader.py
VARIABLES
    download       \* the activation of VideoDownloader._download_with_retry

dlvars == <<download>>

\* claude_cli_analyzer.py
VARIABLES
    cli_call,      \* the last ClaudeCLIAnalyzer.analyze_frame call: arguments and result
    cli_progress,  \* the AnalysisProgress of the last analyze_frames run (self._progress)
    cli_runs       \* the analyze_frames runs made: arguments, frames analyzed, results

clivars == <<cli_call, cli_progress, cli_runs>>

\* logger.py
VARIABLES
    saver          \* the report object a PartialResultSaver was last given, and its file

savevars == <<saver>>

\* main.py
VARIABLES
    pipeline       \* the activation of BilibiliAnalyzer.analyze

pipevars == <<pipeline>>

\* the variables of the modules that follow
restvars == <<dlvars, clivars, savevars, pipevars>>

vars == <<anavars, simvars, repvars, restvars>>

Refs == 1..Len(heap)

\* --------------------------------------------------------------- registry
\* str(uuid.uuid4()): the value of the next draw; draws never repeat
Uuid4(drawn) == drawn + 1

\* A task id taken from the frame instead of a fresh uuid
TaskIdFromFrame(drawn, frame_info) == frame_info.frame_id + 1

\* task_id = str(uuid.uuid4()) in create_tasks
NewTaskId(drawn, frame_info) == Uuid4(drawn)

\* One activation of _execute_task_with_retry that has not been called.
IdleFrame == [pc |-> "idle", last_error |-> ""]

\* The for loop of create_tasks over frames[i..]: st holds tasks (the list
\* built so far), heap, registry and uuids.
RECURSIVE CreateLoop(_, _, _)
CreateLoop(frames, i, st) ==
    IF i > Len(frames) THEN st
    ELSE LET task_id == NewTaskId(st.uuids, frames[i])
             task == AnalysisTask(task_id, frames[i], PENDING, NoResult, 0, "")
             ref == Len(st.heap) + 1
         IN CreateLoop(frames, i + 1,
                [tasks |-> Append(st.tasks, ref),
                 heap |-> Append(st.heap, task),
                 registry |-> [id \in DOMAIN st.registry \cup {task_id} |->
                                 IF id = task_id THEN ref ELSE st.registry[id]],
                 uuids |-> st.uuids + 1])

\* AIAnalyzer.update_task_status
UpdateTaskStatus(h, reg, task_id, status, result, error_message) ==
    IF task_id \in DOMAIN reg
    THEN [h EXCEPT ![reg[task_id]] =
            [@ EXCEPT !.status = status,
                      !.result = IF result # NoResult THEN result ELSE @,
                      !.error_message =
                          IF error_message # "" THEN error_message ELSE @]]
    ELSE h

\* AIAnalyzer.aggregate_results: sorted(analyses, key=timestamp), a stable sort
RECURSIVE InsertByTimestamp(_, _)
InsertByTimestamp(sorted, a) ==
    IF sorted = <<>> THEN <<a>>
    ELSE IF sorted[Len(sorted)].timestamp <= a.timestamp
         THEN Append(sorted, a)
         ELSE Append(InsertByTimestamp(SubSeq(sorted, 1, Len(sorted) - 1), a),
                     sorted[Len(sorted)])

RECURSIVE SortedPrefix(_, _)
SortedPrefix(analyses, n) ==
    IF n = 0 THEN <<>>
    ELSE InsertByTimestamp(SortedPrefix(analyses, n - 1), analyses[n])

CompletionOrder(analyses) == analyses

AggregateResults(analyses) == SortedPrefix(analyses, Len(analyses))

\* ------------------------------------------------------------------ inputs
\* The frames the extraction step can hand over: frame ids may repeat and
\* timestamps may tie or come unsorted.
Frames == {FrameInfo(0, 1), FrameInfo(1, 0), FrameInfo(2, 1)}

RECURSIVE SeqsUpTo(_, _)
SeqsUpTo(S, n) ==
    IF n = 0 THEN {<<>>}
    ELSE LET shorter == SeqsUpTo(S, n - 1)
         IN shorter \cup {Append(q, x) : q \in shorter, x \in S}

\* Widths of the worker pool.
WorkerChoices == 1..MaxWorkers

\* CLI outputs with exit code 0.
Responses ==
    { <<JsonTok(GoodDoc, 120)>>,
      <<Prose(20), Ws, FenceJson, Ws, JsonTok(GoodDoc, 120), Ws, Fence>>,
      <<Fence, Ws, JsonTok(GoodDoc, 120), Ws, Fence, Ws, Prose(20)>>,
      <<Prose(40)>>,
      <<Prose(300), Ws, Prose(300)>>,
      <<>>,
      <<JsonTok(JsonDoc("list", NoMembers), 6)>>,
      <<JsonTok(JsonDoc("number", NoMembers), 2)>>,
      <<JsonTok(JsonDoc("object", [GoodDoc.members EXCEPT !["confidence"] = PyStr("high")]), 120)>>,
      <<JsonTok(JsonDoc("object", [GoodDoc.members EXCEPT !["confidence"] = PyStr("0.9")]), 120)>>,
      <<JsonTok(JsonDoc("object", [GoodDoc.members EXCEPT !["confidence"] = PyNull]), 120)>>,
      <<JsonTok(JsonDoc("object", [GoodDoc.members EXCEPT !["objects"] = PyStr("cat")]), 120)>>,
      <<JsonTok(JsonDoc("object", [NoMembers EXCEPT !["description"] = PyStr("a scene")]), 30)>> }

\* Everything that can happen during one analyze_frame call.
AllAttempts ==
    {Attempt(FALSE, CliOutcome("exit0", <<>>))}
        \cup {Attempt(TRUE, CliOutcome(k, <<>>)) : k \in CliKinds \ {"exit0"}}
        \cup {Attempt(TRUE, CliOutcome("exit0", r)) : r \in Responses}

\* The attempts the worker-pool specification draws from: a success and the
\* CLI timeout, the failure analyze_frame reports without a response.
PoolAttempts ==
    {Attempt(TRUE, CliOutcome("exit0", <<JsonTok(GoodDoc, 120)>>)),
     Attempt(TRUE, CliOutcome("TimeoutExpired", <<>>))}

\* ------------------------------------------------------- frame_similarity
\* Python's true division of two non-negative integers, as the fraction in
\* lowest terms (den 1 for zero).
RECURSIVE Gcd(_, _)
Gcd(a, b) == IF b = 0 THEN a ELSE Gcd(b, a % b)

TrueDiv(a, b) == [num |-> a \div Gcd(a, b), den |-> b \div Gcd(a, b)]

\* The integer 0 that stands for the rate of an empty registry.
ZeroRate == [num |-> 0, den |-> 1]

\* Thresholds are counted in hundredths.
ThresholdScale == 100

\* int(x) for the quotient x = n / d with d > 0: truncation toward zero
IntTrunc(n, d) == IF n >= 0 THEN n \div d ELSE -((-n) \div d)

BitsTimesThreshold(hash_size, similarity_threshold) ==
    IntTrunc(hash_size * hash_size * similarity_threshold, ThresholdScale)

\* int(total_bits * (1 - similarity_threshold))
MaxHammingDistance(hash_size, similarity_threshold) ==
    IntTrunc(hash_size * hash_size * (ThresholdScale - similarity_threshold), ThresholdScale)

\* FrameSimilarityDetector.__init__
FrameSimilarityDetector(similarity_threshold, hash_size) ==
    [similarity_threshold |-> similarity_threshold,
     hash_size |-> hash_size,
     max_hamming_distance |-> MaxHammingDistance(hash_size, similarity_threshold)]

NoDetector == [similarity_threshold |-> -1, hash_size |-> 0, max_hamming_distance |-> 0]

\* An imagehash.ImageHash: the set of positions of its 1 bits. NoHash is None.
ImageHash(bits) == [none |-> FALSE, bits |-> bits]

NoHash == [none |-> TRUE, bits |-> {}]

\* hash1 - hash2: the number of bits that differ
HammingDistance(hash1, hash2) ==
    Cardinality((hash1.bits \ hash2.bits) \cup (hash2.bits \ hash1.bits))

\* compute_hash: None without the library or when the image cannot be read
\* (image = NoHash), else the hash of the image
ComputeHash(available, image) == IF ~available THEN NoHash ELSE image

NoneAsEmptyHash(det, hash1, hash2) ==
    HammingDistance(hash1, hash2) <= det.max_hamming_distance

\* are_similar
AreSimilar(det, hash1, hash2) ==
    IF hash1.none \/ hash2.none
    THEN FALSE
    ELSE HammingDistance(hash1, hash2) <= det.max_hamming_distance

FrameGroup(representative_frame, start_time, end_time, frame_count, frame_ids) ==
    [representative_frame |-> representative_frame, start_time |-> start_time,
     end_time |-> end_time, frame_count |-> frame_count, frame_ids |-> frame_ids]

SimilarityResult(original_count, merged_count, groups, reduction_ratio) ==
    [original_count |-> original_count, merged_count |-> merged_count,
     groups |-> groups, reduction_ratio |-> reduction_ratio]

\* _create_group
CreateGroup(frames) ==
    FrameGroup(frames[1], frames[1].timestamp, frames[Len(frames)].timestamp,
               Len(frames), [i \in 1..Len(frames) |-> frames[i].frame_id])

PreviousHash(current_group_hashes) == current_group_hashes[Len(current_group_hashes)]

\* current_group_hashes[0], the hash the next frame is compared with
AnchorHash(current_group_hashes) == current_group_hashes[1]

DropLastGroup(groups, current_group_frames) == groups

\* the last group is saved after the loop
SaveLastGroup(groups, current_group_frames) ==
    IF current_group_frames # <<>>
    THEN Append(groups, CreateGroup(current_group_frames))
    ELSE groups

\* for i in range(1, len(frames)), then the last group
RECURSIVE GroupLoop(_, _, _, _, _, _, _)
GroupLoop(det, frames, hashes, i, groups, current_group_frames, current_group_hashes) ==
    IF i > Len(frames)
    THEN SaveLastGroup(groups, current_group_frames)
    ELSE IF AreSimilar(det, hashes[i], AnchorHash(current_group_hashes))
         THEN GroupLoop(det, frames, hashes, i + 1, groups,
                        Append(current_group_frames, frames[i]),
                        Append(current_group_hashes, hashes[i]))
         ELSE GroupLoop(det, frames, hashes, i + 1,
                        Append(groups, CreateGroup(current_group_frames)),
                        <<frames[i]>>, <<hashes[i]>>)

OneGroupForAll(frames) == <<CreateGroup(frames)>>

\* without imagehash: every frame a group of its own
SingletonGroups(frames) ==
    [i \in 1..Len(frames) |->
        FrameGroup(frames[i], frames[i].timestamp, frames[i].timestamp, 1,
                   <<frames[i].frame_id>>)]

\* detect_and_merge
DetectAndMerge(det, available, frames, images) ==
    IF frames = <<>>
    THEN SimilarityResult(0, 0, <<>>, ZeroRate)
    ELSE IF ~available
    THEN SimilarityResult(Len(frames), Len(frames), SingletonGroups(frames), ZeroRate)
    ELSE LET hashes == [i \in 1..Len(frames) |-> ComputeHash(available, images[i])]
             groups == GroupLoop(det, frames, hashes, 2, <<>>, <<frames[1]>>, <<hashes[1]>>)
             original_count == Len(frames)
             merged_count == Len(groups)
         IN SimilarityResult(original_count, merged_count, groups,
                             IF original_count > 0
                             THEN TrueDiv(original_count - merged_count, original_count)
                             ELSE ZeroRate)

NoDetection ==
    [called |-> FALSE, frames |-> <<>>, images |-> <<>>,
     result |-> SimilarityResult(0, 0, <<>>, ZeroRate)]

SimilarityUnused ==
    /\ IMAGEHASH_AVAILABLE = TRUE
    /\ detector = NoDetector
    /\ detection = NoDetection

\* ----------------------------------------------------- incremental_report
\* A report is a sequence of pieces: the fixed lines the generator writes and
\* the pieces of the free text it embeds (title, description, responses,
\* transcript, summary). a and b carry a piece's numbers.
Piece(k, a, b) == [k |-> k, a |-> a, b |-> b]

\* the placeholder token of the summary
Placeholder == Piece("placeholder", 0, 0)

\* free text without the placeholder token; id tells texts apart
Words(id) == Piece("words", id, 0)

Rule == Piece("rule", 0, 0)

\* the file at report_path
NoFile == [exists |-> FALSE, content |-> <<>>]

File(content) == [exists |-> TRUE, content |-> content]

\* VideoMetadata; title and description are free text, bvid stands for the
\* attributes of the table
VideoMetadata(bvid, title, description) ==
    [bvid |-> bvid, title |-> title, description |-> description]

\* TranscriptionResult, None when not given
NoTranscript == [given |-> FALSE, success |-> FALSE, segments |-> <<>>]

TranscriptSegment(start, end, text) == [start |-> start, end |-> end, text |-> text]

TranscriptionResult(success, segments) ==
    [given |-> TRUE, success |-> success, segments |-> segments]

\* the parsed analysis of a ClaudeAnalysisResult, None when absent
NoAnalysis == [description |-> <<>>, text_content |-> <<>>, key_points |-> <<>>, given |-> FALSE]

ParsedAnalysis(description, text_content, key_points) ==
    [description |-> description, text_content |-> text_content,
     key_points |-> key_points, given |-> TRUE]

ClaudeAnalysisResult(success, raw_response, parsed_analysis, error_message) ==
    [success |-> success, raw_response |-> raw_response,
     parsed_analysis |-> parsed_analysis, error_message |-> error_message]

\* group=None
NoGroup == FrameGroup(FrameInfo(-1, -1), -1, -1, 0, <<>>)

\* IncrementalReportGenerator.__init__
NewGenerator == [initialized |-> FALSE, frame_count |-> 0, transcript |-> NoTranscript]

\* _generate_header
GenerateHeader(metadata) ==
    <<Piece("title", 0, 0)>> \o metadata.title
        \o <<Piece("info", metadata.bvid, 0)>>
        \o (IF metadata.description # <<>>
            THEN <<Piece("description_heading", 0, 0)>> \o metadata.description
            ELSE <<>>)
        \o <<Rule, Piece("summary_heading", 0, 0), Placeholder, Rule,
             Piece("detail_heading", 0, 0)>>

\* the items of a list, one bullet line each
RECURSIVE Bullets(_)
Bullets(items) ==
    IF items = <<>> THEN <<>>
    ELSE <<Piece("bullet", 0, 0)>> \o Head(items) \o Bullets(Tail(items))

\* _get_transcript_for_time: the texts of the segments that overlap
RECURSIVE OverlappingTexts(_, _, _)
OverlappingTexts(segments, start_time, end_time) ==
    IF segments = <<>> THEN <<>>
    ELSE (IF Head(segments).end >= start_time /\ Head(segments).start <= end_time
          THEN Head(segments).text ELSE <<>>)
            \o OverlappingTexts(Tail(segments), start_time, end_time)

GetTranscriptForTime(transcript, start_time, end_time) ==
    IF ~transcript.given \/ transcript.segments = <<>>
    THEN <<>>
    ELSE OverlappingTexts(transcript.segments, start_time, end_time)

\* _generate_frame_section
GenerateFrameSection(gen, frame_info, result, group) ==
    LET heading ==
            IF group # NoGroup /\ group.frame_count > 1
            THEN <<Piece("frame_heading", group.start_time, group.end_time),
                   Piece("merged", group.frame_count, 0)>>
            ELSE <<Piece("frame_heading", frame_info.timestamp, frame_info.timestamp)>>
        image == <<Piece("image", frame_info.timestamp, frame_info.frame_id)>>
        analysis == result.parsed_analysis
        content ==
            IF result.success /\ result.raw_response # <<>>
            THEN result.raw_response
            ELSE IF result.success /\ analysis # NoAnalysis
            THEN (IF analysis.description # <<>>
                  THEN <<Piece("scene", 0, 0)>> \o analysis.description ELSE <<>>)
                 \o (IF analysis.text_content # <<>>
                     THEN <<Piece("texts", 0, 0)>> \o Bullets(analysis.text_content)
                     ELSE <<>>)
                 \o (IF analysis.key_points # <<>>
                     THEN <<Piece("key_points", 0, 0)>> \o Bullets(analysis.key_points)
                     ELSE <<>>)
            ELSE <<Piece("failed", 0, 0)>>
                 \o (IF result.error_message # <<>>
                     THEN result.error_message
                     ELSE <<Piece("unknown_error", 0, 0)>>)
        start_time == IF group # NoGroup THEN group.start_time ELSE frame_info.timestamp
        end_time == IF group # NoGroup THEN group.end_time ELSE frame_info.timestamp + 1
        transcript_text == GetTranscriptForTime(gen.transcript, start_time, end_time)
        audio ==
            IF gen.transcript.given /\ gen.transcript.success /\ transcript_text # <<>>
            THEN <<Piece("audio", start_time, end_time)>> \o transcript_text
            ELSE <<>>
    IN heading \o image \o content \o audio \o <<Rule>>

\* _generate_footer: the statistics with the frame count
GenerateFooter(gen) == <<Rule, Piece("footer", gen.frame_count, 0)>>

\* placeholder in content
Contains(content, piece) == \E i \in 1..Len(content) : content[i] = piece

ReplaceFirstOnly(content, piece, text) ==
    IF ~Contains(content, piece) THEN content
    ELSE LET i == CHOOSE j \in 1..Len(content) :
                    /\ content[j] = piece
                    /\ \A k \in 1..(j - 1) : content[k] # piece
         IN SubSeq(content, 1, i - 1) \o text \o SubSeq(content, i + 1, Len(content))

\* content.replace(placeholder, summary): every occurrence
RECURSIVE Replace(_, _, _)
Replace(content, piece, text) ==
    IF content = <<>> THEN <<>>
    ELSE (IF Head(content) = piece THEN text ELSE <<Head(content)>>)
            \o Replace(Tail(content), piece, text)

\* The metadata or the summary a call was given.
NoMetadata == VideoMetadata(0, <<>>, <<>>)

NoArg == [metadata |-> NoMetadata, summary |-> <<>>]

ReportUnused ==
    /\ generator = NewGenerator
    /\ report_file = NoFile
    /\ calls = <<>>
    /\ before = [file |-> NoFile, generator |-> NewGenerator, arg |-> NoArg]

\* No _download_with_retry call was made.
NoDownload ==
    [pc |-> "idle", max_retries |-> 0, failures |-> 0, attempt |-> 0, made |-> <<>>,
     sleeps |-> <<>>, file |-> "none", success |-> FALSE, retry_count |-> 0]

DownloadUnused == download = NoDownload

\* ClaudeCLIAnalyzer.analyze_frame: the loop over range(self.max_retries + 1).
\* outcomes is what the claude command does at each invocation: it prints
\* stdout, or the call raises (nonzero exit, timeout) with stdout as message.
StopAtLastAttempt(outcomes, attempt, max_retries, last_error, invoked) ==
    [success |-> attempt < Len(outcomes) /\ ~outcomes[Len(outcomes)].raises
                    /\ outcomes[Len(outcomes)].stdout # <<>>,
     response |-> IF outcomes # <<>> THEN outcomes[Len(outcomes)].stdout ELSE <<>>,
     last_error |-> last_error,
     invocations |-> Len(outcomes)]

RECURSIVE AttemptLoop(_, _, _, _, _)
AttemptLoop(outcomes, attempt, max_retries, last_error, invoked) ==
    IF attempt >= max_retries + 1
    THEN [success |-> FALSE, response |-> <<>>, last_error |-> last_error,
          invocations |-> invoked]
    ELSE LET call == outcomes[attempt + 1]
         IN IF call.raises
            THEN AttemptLoop(outcomes, attempt + 1, max_retries, call.stdout, invoked + 1)
            ELSE IF call.stdout # <<>>
            THEN [success |-> TRUE, response |-> call.stdout, last_error |-> last_error,
                  invocations |-> invoked + 1]
            ELSE AttemptLoop(outcomes, attempt + 1, max_retries, last_error, invoked + 1)

\* _parse_response: the description is the response; a response without list
\* items has no objects, texts or key points
ParseResponse(response) == ParsedAnalysis(response, <<>>, <<>>)

\* analyze_frame(frame): the result and the number of _call_claude calls
CliAnalyzeFrame(max_retries, file_exists, outcomes) ==
    IF ~file_exists
    THEN [result |-> ClaudeAnalysisResult(FALSE, <<>>, NoAnalysis,
                                          <<Piece("image_missing", 0, 0)>>),
          invocations |-> 0]
    ELSE LET r == AttemptLoop(outcomes, 0, max_retries, <<>>, 0)
         IN [result |->
                IF r.success
                THEN ClaudeAnalysisResult(TRUE, r.response, ParseResponse(r.response), <<>>)
                ELSE ClaudeAnalysisResult(FALSE, <<>>, NoAnalysis,
                        IF r.last_error # <<>> THEN r.last_error
                        ELSE <<Piece("analysis_failed", 0, 0)>>),
             invocations |-> r.invocations]

NoCliCall ==
    [called |-> FALSE, max_retries |-> 0, file_exists |-> FALSE, outcomes |-> <<>>,
     result |-> ClaudeAnalysisResult(FALSE, <<>>, NoAnalysis, <<>>), invocations |-> 0]

\* AnalysisProgress; given is false for None
AnalysisProgress(total_frames, analyzed_frames, failed_frames, last_frame_id) ==
    [given |-> TRUE, total_frames |-> total_frames, analyzed_frames |-> analyzed_frames,
     failed_frames |-> failed_frames, last_frame_id |-> last_frame_id]

NoProgress ==
    [given |-> FALSE, total_frames |-> 0, analyzed_frames |-> <<>>,
     failed_frames |-> <<>>, last_frame_id |-> -1]

CliUnused ==
    /\ cli_call = NoCliCall
    /\ cli_progress = NoProgress
    /\ cli_runs = <<>>

\* VideoReport; metadata is NoMetadata for None
VideoReport(metadata, frames, analyses, status, errors) ==
    [metadata |-> metadata, frames |-> frames, analyses |-> analyses,
     status |-> status, errors |-> errors]

\* No file was written by the saver.
NoPartialFile ==
    [exists |-> FALSE, status |-> "", errors |-> <<>>, metadata |-> NoMetadata,
     frame_ids |-> <<>>, descriptions |-> <<>>, saved_at |-> FALSE]

\* The JSON document of a report: the metadata, one entry per frame and per
\* analysis, the status and the errors, stamped with the time of saving.
PartialFile(report) ==
    [exists |-> TRUE, status |-> report.status, errors |-> report.errors,
     metadata |-> report.metadata,
     frame_ids |-> [i \in 1..Len(report.frames) |-> report.frames[i].frame_id],
     descriptions |-> [i \in 1..Len(report.analyses) |-> report.analyses[i].description],
     saved_at |-> TRUE]

KeepStatus(report, error_message) ==
    [report EXCEPT !.errors = Append(@, error_message)]

\* save_partial_report: the report object is marked partial and the error
\* joins its error list
MarkPartial(report, error_message) ==
    [report EXCEPT !.status = "partial", !.errors = Append(@, error_message)]

\* PartialResultSaver.save_partial_report(report, error_message): the report
\* object as the call leaves it and the file it writes; write_fails when the
\* write raises, which the call lets through.
SavePartialReport(old_file, report, error_message, write_fails) ==
    LET marked == MarkPartial(report, error_message)
    IN [report |-> marked,
        file |-> IF write_fails THEN old_file ELSE PartialFile(marked),
        raised |-> write_fails]

\* No error-state file was written.
NoErrorState ==
    [exists |-> FALSE, status |-> "", stage |-> "", message |-> "",
     frames_count |-> 0, analyses_count |-> 0]

\* save_error_state(error, partial_data, stage): the error-state file
SaveErrorState(message, frames_count, analyses_count, stage) ==
    [exists |-> TRUE, status |-> "incomplete", stage |-> stage, message |-> message,
     frames_count |-> frames_count, analyses_count |-> analyses_count]

NoSaver ==
    [report |-> VideoReport(NoMetadata, <<>>, <<>>, "complete", <<>>),
     given |-> VideoReport(NoMetadata, <<>>, <<>>, "complete", <<>>),
     error_message |-> "", file |-> NoPartialFile, saves |-> 0, raised |-> FALSE,
     error_state |-> NoErrorState]

SaverUnused == saver = NoSaver

\* What analyze handed to the saver: nothing, or the report's counts.
NoHandover == [to |-> "none", frames_count |-> 0, analyses_count |-> 0]

Handover(to, report) ==
    [to |-> to, frames_count |-> Len(report.frames),
     analyses_count |-> Len(report.analyses)]

\* analyze was not called.
NoPipeline ==
    [pc |-> "idle", groups |-> <<>>, cli |-> FALSE, idx |-> 0, analyses |-> <<>>,
     succeeded |-> 0,
     report |-> VideoReport(NoMetadata, <<>>, <<>>, "complete", <<>>),
     handed |-> NoHandover, raised |-> "none"]

PipelineUnused == pipeline = NoPipeline

RestUnused == DownloadUnused /\ CliUnused /\ SaverUnused /\ PipelineUnused

\* ------------------------------------------------------------------- Init
IdleRun ==
    [pc |-> "idle", tasks |-> <<>>, results |-> <<>>, completed |-> 0,
     failed |-> 0, collected |-> {}, ret |-> <<>>]

\* AIAnalyzer.__init__
AnalyzerInit ==
    /\ max_workers \in WorkerChoices
    /\ on_progress \in BOOLEAN
    /\ heap = <<>>
    /\ registry = [id \in {} |-> 0]
    /\ uuids = 0
    /\ frames_arg = <<>>
    /\ created = <<>>
    /\ frame = <<>>
    /\ attempts = <<>>
    /\ rp = IdleRun

\* An analyzer; no frame detector and no report writer in use.
Init ==
    /\ AnalyzerInit
    /\ SimilarityUnused
    /\ ReportUnused
    /\ RestUnused

\* The analyzer of the retry tests: AIAnalyzer(max_workers=1), no callback
InitDirect ==
    /\ Init
    /\ max_workers = 1
    /\ on_progress = FALSE

\* ---------------------------------------------------------- create_tasks
NothingStarted == rp.pc = "idle" /\ \A ref \in Refs : frame[ref].pc = "idle"

\* AIAnalyzer.create_tasks(frames)
CreateTasks(frames) ==
    /\ NothingStarted
    /\ Len(heap) + Len(frames) <= MaxTasks
    /\ LET st == CreateLoop(frames, 1,
                    [tasks |-> <<>>, heap |-> heap, registry |-> registry,
                     uuids |-> uuids])
       IN /\ heap' = st.heap
          /\ registry' = st.registry
          /\ uuids' = st.uuids
          /\ created' = st.tasks
    /\ frames_arg' = frames
    /\ frame' = frame \o [i \in 1..Len(frames) |-> IdleFrame]
    /\ attempts' = attempts \o [i \in 1..Len(frames) |-> <<>>]
    /\ UNCHANGED <<simvars, repvars, restvars, max_workers, on_progress, rp>>

\* ------------------------------------------------ _execute_task_with_retry
\* A caller invokes _execute_task_with_retry(task) directly, as the retry
\* tests do.
DirectCall(ref) ==
    /\ NothingStarted
    /\ frame' = [frame EXCEPT ![ref].pc = "entry"]
    /\ UNCHANGED <<simvars, repvars, restvars, max_workers, on_progress, heap, registry, uuids, frames_arg, created, attempts, rp>>

\* self.update_task_status(task.task_id, TaskStatus.RUNNING); last_error = None
EntryLeavesStatus(h, reg, task_id) == h

ExecEntryHeap(h, reg, task_id) == UpdateTaskStatus(h, reg, task_id, RUNNING, NoResult, "")

ExecEntry(ref) ==
    /\ frame[ref].pc = "entry"
    /\ heap' = ExecEntryHeap(heap, registry, heap[ref].task_id)
    /\ frame' = [frame EXCEPT ![ref] = [pc |-> "loop", last_error |-> ""]]
    /\ UNCHANGED <<simvars, repvars, restvars, max_workers, on_progress, registry, uuids, frames_arg, created, attempts, rp>>

\* while task.retry_count <= self.MAX_RETRY_COUNT
NoRetry(task) == task.retry_count < MAX_RETRY_COUNT

RetryOnceMore(task) == task.retry_count <= MAX_RETRY_COUNT + 1

LoopContinues(task) == task.retry_count <= MAX_RETRY_COUNT

\* task.retry_count after an analyze_frame call: += 1 in the except branch
CountEveryAttempt(task, failed) == task.retry_count + 1

RetryCountAfter(task, failed) ==
    IF failed THEN task.retry_count + 1 ELSE task.retry_count

\* One iteration of the loop: analyze_frame is called; its result is stored
\* in task.result, or its AnalysisError is kept in last_error and counted.
ExecAttempt(ref, envs) ==
    /\ frame[ref].pc = "loop"
    /\ LoopContinues(heap[ref])
    /\ \E env \in envs :
          LET r == AnalyzeFrame(heap[ref], env)
          IN /\ attempts' = [attempts EXCEPT ![ref] =
                                Append(@, [env |-> env, exc |-> r.exc, result |-> r.result])]
             /\ heap' = [heap EXCEPT ![ref] =
                           [@ EXCEPT !.result = IF r.exc = "" THEN r.result ELSE @,
                                     !.retry_count = RetryCountAfter(heap[ref], r.exc # "")]]
             /\ frame' = [frame EXCEPT ![ref] =
                            IF r.exc = ""
                            THEN [@ EXCEPT !.pc = "store_completed"]
                            ELSE [@ EXCEPT !.last_error = r.msg]]
    /\ UNCHANGED <<simvars, repvars, restvars, max_workers, on_progress, registry, uuids, frames_arg, created, rp>>

\* task.status = TaskStatus.COMPLETED.value; return task
ExecStoreCompleted(ref) ==
    /\ frame[ref].pc = "store_completed"
    /\ heap' = [heap EXCEPT ![ref].status = COMPLETED]
    /\ frame' = [frame EXCEPT ![ref].pc = "returned"]
    /\ UNCHANGED <<simvars, repvars, restvars, max_workers, on_progress, registry, uuids, frames_arg, created, attempts, rp>>

\* The loop ends: task.status = TaskStatus.FAILED.value
ExecStoreFailed(ref) ==
    /\ frame[ref].pc = "loop"
    /\ ~LoopContinues(heap[ref])
    /\ heap' = [heap EXCEPT ![ref].status = FAILED]
    /\ frame' = [frame EXCEPT ![ref].pc = "store_error"]
    /\ UNCHANGED <<simvars, repvars, restvars, max_workers, on_progress, registry, uuids, frames_arg, created, attempts, rp>>

EmptyErrorMessage(last_error) == ""

\* task.error_message = str(last_error) if last_error else "unknown error"
ErrorMessageOf(last_error) ==
    IF last_error # "" THEN last_error ELSE "unknown error"

ExecStoreError(ref) ==
    /\ frame[ref].pc = "store_error"
    /\ heap' = [heap EXCEPT ![ref].error_message = ErrorMessageOf(frame[ref].last_error)]
    /\ frame' = [frame EXCEPT ![ref].pc = "returned"]
    /\ UNCHANGED <<simvars, repvars, restvars, max_workers, on_progress, registry, uuids, frames_arg, created, attempts, rp>>

\* ------------------------------------------------------------ run_parallel
TaskSet(tasks) == {tasks[i] : i \in 1..Len(tasks)}

Executing(ref) == frame[ref].pc \in {"entry", "loop", "store_completed", "store_error"}

\* analyze_frames(frames): create_tasks(frames), then run_parallel(tasks) up
\* to the end of its submit loop, where every task has a future in the
\* executor's queue.
AnalyzeFrames(frames) ==
    /\ NothingStarted
    /\ Len(heap) + Len(frames) <= MaxTasks
    /\ LET st == CreateLoop(frames, 1,
                    [tasks |-> <<>>, heap |-> heap, registry |-> registry,
                     uuids |-> uuids])
       IN /\ heap' = st.heap
          /\ registry' = st.registry
          /\ uuids' = st.uuids
          /\ created' = st.tasks
          /\ rp' = [IdleRun EXCEPT !.pc = "collecting", !.tasks = st.tasks]
    /\ frames_arg' = frames
    /\ frame' = frame \o [i \in 1..Len(frames) |-> [IdleFrame EXCEPT !.pc = "queued"]]
    /\ attempts' = attempts \o [i \in 1..Len(frames) |-> <<>>]
    /\ UNCHANGED <<simvars, repvars, restvars, max_workers, on_progress>>

\* A pool thread takes the oldest queued work item; the pool has at most
\* max_workers threads.
WorkerTake(ref) ==
    /\ rp.pc \in {"collecting", "unwinding"}
    /\ \E i \in 1..Len(rp.tasks) :
          /\ rp.tasks[i] = ref
          /\ frame[ref].pc = "queued"
          /\ \A j \in 1..(i - 1) : frame[rp.tasks[j]].pc # "queued"
    /\ Cardinality({r \in TaskSet(rp.tasks) : Executing(r)}) < max_workers
    /\ frame' = [frame EXCEPT ![ref].pc = "entry"]
    /\ UNCHANGED <<simvars, repvars, restvars, max_workers, on_progress, heap, registry, uuids, frames_arg, created, attempts, rp>>

\* as_completed yields a future once its call has returned
FutureStarted(ref) == frame[ref].pc \notin {"idle", "queued"}

FutureDone(ref) == frame[ref].pc = "returned"

\* The body of the as_completed loop for one finished future, up to the
\* progress callback.
Collected(r, ref, task) ==
    IF task.status = COMPLETED /\ task.result # NoResult
    THEN [r EXCEPT !.collected = @ \cup {ref},
                   !.results = Append(@, task.result),
                   !.completed = @ + 1]
    ELSE [r EXCEPT !.collected = @ \cup {ref}, !.failed = @ + 1]

\* as_completed yields a finished future; no callback is set, or it returns.
Collect(ref) ==
    /\ rp.pc = "collecting"
    /\ ref \in TaskSet(rp.tasks) \ rp.collected
    /\ FutureDone(ref)
    /\ rp' = Collected(rp, ref, heap[ref])
    /\ UNCHANGED <<simvars, repvars, restvars, max_workers, on_progress, heap, registry, uuids, frames_arg, created, frame, attempts>>

\* as_completed yields a finished future and self.on_progress(...) raises:
\* the exception leaves the loop and the with block starts shutting down.
CollectCallbackRaises(ref) ==
    /\ rp.pc = "collecting"
    /\ on_progress
    /\ ref \in TaskSet(rp.tasks) \ rp.collected
    /\ FutureDone(ref)
    /\ rp' = [Collected(rp, ref, heap[ref]) EXCEPT !.pc = "unwinding"]
    /\ UNCHANGED <<simvars, repvars, restvars, max_workers, on_progress, heap, registry, uuids, frames_arg, created, frame, attempts>>

\* What run_parallel returns from the results it collected
ReturnValue(results) == AggregateResults(results)

\* Every future was yielded, so the shutdown(wait=True) that ends the with
\* block has nothing left to wait for: return self.aggregate_results(results)
FinishCollect ==
    /\ rp.pc = "collecting"
    /\ rp.collected = TaskSet(rp.tasks)
    /\ rp' = [rp EXCEPT !.pc = "returned", !.ret = ReturnValue(rp.results)]
    /\ UNCHANGED <<simvars, repvars, restvars, max_workers, on_progress, heap, registry, uuids, frames_arg, created, frame, attempts>>

\* ThreadPoolExecutor.__exit__ on an exception: shutdown(wait=True) lets
\* every submitted task finish, then the exception leaves run_parallel.
Unwind ==
    /\ rp.pc = "unwinding"
    /\ \A ref \in TaskSet(rp.tasks) : FutureDone(ref)
    /\ rp' = [rp EXCEPT !.pc = "raised"]
    /\ UNCHANGED <<simvars, repvars, restvars, max_workers, on_progress, heap, registry, uuids, frames_arg, created, frame, attempts>>

\* ---------------------------------------------------------- specifications
\* The worker pool: one analyze_frames call on a new analyzer.
Next ==
    \/ \E frames \in SeqsUpTo(Frames, MaxFrames) : AnalyzeFrames(frames)
    \/ \E ref \in Refs : WorkerTake(ref)
    \/ \E ref \in Refs : ExecEntry(ref)
    \/ \E ref \in Refs : ExecAttempt(ref, PoolAttempts)
    \/ \E ref \in Refs : ExecStoreCompleted(ref)
    \/ \E ref \in Refs : ExecStoreFailed(ref)
    \/ \E ref \in Refs : ExecStoreError(ref)
    \/ \E ref \in Refs : Collect(ref)
    \/ \E ref \in Refs : CollectCallbackRaises(ref)
    \/ FinishCollect
    \/ Unwind

Spec == Init /\ [][Next]_vars

\* The retry loop alone: create_tasks, then one direct call of
\* _execute_task_with_retry, with everything the vision primitive can do.
NextDirect ==
    \/ \E frames \in SeqsUpTo(Frames, MaxFrames) : CreateTasks(frames)
    \/ \E ref \in Refs : DirectCall(ref)
    \/ \E ref \in Refs : ExecEntry(ref)
    \/ \E ref \in Refs : ExecAttempt(ref, AllAttempts)
    \/ \E ref \in Refs : ExecStoreCompleted(ref)
    \/ \E ref \in Refs : ExecStoreFailed(ref)
    \/ \E ref \in Refs : ExecStoreError(ref)

SpecDirect == InitDirect /\ [][NextDirect]_vars

\* ---------------------------------------------------- get_analysis_summary
\* AIAnalyzer.get_all_tasks(): the task objects of the registry
GetAllTasks(reg) == {reg[id] : id \in DOMAIN reg}

\* len([t for t in all_tasks if t.status == status.value])
CountStatus(h, all_tasks, status) == Cardinality({ref \in all_tasks : h[ref].status = status})

RateOfFinished(completed, failed, total) ==
    IF completed + failed # 0 THEN TrueDiv(completed, completed + failed) ELSE ZeroRate

\* completed / len(all_tasks) if all_tasks else 0
SuccessRate(completed, failed, total) ==
    IF total # 0 THEN TrueDiv(completed, total) ELSE ZeroRate

\* AIAnalyzer.get_analysis_summary()
GetAnalysisSummary(h, reg) ==
    LET all_tasks == GetAllTasks(reg)
        completed == CountStatus(h, all_tasks, COMPLETED)
        failed == CountStatus(h, all_tasks, FAILED)
        pending == CountStatus(h, all_tasks, PENDING)
        running == CountStatus(h, all_tasks, RUNNING)
    IN [total_tasks |-> Cardinality(all_tasks),
        completed |-> completed,
        failed |-> failed,
        pending |-> pending,
        running |-> running,
        success_rate |-> SuccessRate(completed, failed, Cardinality(all_tasks))]

\* The arguments a caller gives update_task_status besides the task id: the
\* status alone, as _execute_task_with_retry does on entry.
StatusUpdates ==
    {[status |-> st, result |-> NoResult, error_message |-> ""] : st \in TaskStatus}

\* A caller invokes update_task_status between task executions; an id the
\* registry does not hold changes nothing.
UpdateStatusCall(task_id, u) ==
    /\ NothingStarted
    /\ heap' = UpdateTaskStatus(heap, registry, task_id, u.status, u.result, u.error_message)
    /\ UNCHANGED <<simvars, repvars, restvars, max_workers, on_progress, registry, uuids, frames_arg, created, frame, attempts, rp>>

\* The summary looks at no field of a frame: one frame, given repeatedly.
SummaryFrames == {FrameInfo(0, 1)}

\* create_tasks, update_task_status and task executions in any order.
NextSummary ==
    \/ \E frames \in SeqsUpTo(SummaryFrames, MaxFrames) : CreateTasks(frames)
    \/ \E ref \in Refs : DirectCall(ref)
    \/ \E ref \in Refs : ExecEntry(ref)
    \/ \E ref \in Refs : ExecAttempt(ref, PoolAttempts)
    \/ \E ref \in Refs : ExecStoreCompleted(ref)
    \/ \E ref \in Refs : ExecStoreFailed(ref)
    \/ \E ref \in Refs : ExecStoreError(ref)
    \/ \E task_id \in 1..(uuids + 1) : \E u \in StatusUpdates : UpdateStatusCall(task_id, u)

SpecSummary == InitDirect /\ [][NextSummary]_vars

\* ------------------------------------------------------- detect_and_merge
\* The longest frame list given to detect_and_merge.
MaxSimFrames == 4

\* hash_size of the detectors constructed: hashes of 3 * 3 bits.
HashSizes == {3}

\* similarity_threshold of the detectors constructed, in hundredths; with 9
\* bits they allow 9, 4, 3, 2, 0 and 0 differing bits.
Thresholds == {0, 50, 60, 75, 95, 100}

\* What compute_hash finds for a frame's image file.
Images ==
    {ImageHash({}), ImageHash({1, 2}), ImageHash({3, 4}), ImageHash({5, 6, 7}), NoHash}

\* A frame list in timestamp order, with ties: ids 0, 1, 2, ... at
\* timestamps 0, 1, 1, 2, 2, ...
TimedFrames(n) == [i \in 1..n |-> FrameInfo(i - 1, i \div 2)]

\* No analyzer in use.
AnalyzerUnused ==
    /\ AnalyzerInit
    /\ max_workers = 1
    /\ on_progress = FALSE

\* The module is imported with or without imagehash.
InitSimilarity ==
    /\ AnalyzerUnused
    /\ ReportUnused
    /\ RestUnused
    /\ IMAGEHASH_AVAILABLE \in BOOLEAN
    /\ detector = NoDetector
    /\ detection = NoDetection

\* FrameSimilarityDetector(similarity_threshold, hash_size)
NewDetector(similarity_threshold, hash_size) ==
    /\ detector' = FrameSimilarityDetector(similarity_threshold, hash_size)
    /\ detection' = NoDetection
    /\ UNCHANGED <<anavars, repvars, restvars, IMAGEHASH_AVAILABLE>>

\* detector.detect_and_merge(frames), the image files giving images. The
\* call leaves the detector as it was, so one call per detector is followed.
DetectAndMergeCall(frames, images) ==
    /\ detector # NoDetector
    /\ ~detection.called
    /\ detection' = [called |-> TRUE, frames |-> frames, images |-> images,
                     result |-> DetectAndMerge(detector, IMAGEHASH_AVAILABLE, frames, images)]
    /\ UNCHANGED <<anavars, repvars, restvars, IMAGEHASH_AVAILABLE, detector>>

NextSimilarity ==
    \/ \E t \in Thresholds : \E hash_size \in HashSizes : NewDetector(t, hash_size)
    \/ \E n \in 0..MaxSimFrames : \E images \in [1..n -> Images] :
          DetectAndMergeCall(TimedFrames(n), images)

SpecSimilarity == InitSimilarity /\ [][NextSimilarity]_vars

\* ------------------------------------------- IncrementalReportGenerator
\* The number of calls made on one generator.
MaxCalls == 4

\* What initialize is given.
Initializations ==
    {[metadata |-> VideoMetadata(1, <<Words(1)>>, <<>>), transcript |-> NoTranscript],
     [metadata |-> VideoMetadata(2, <<Words(2)>>, <<Words(3)>>),
      transcript |-> TranscriptionResult(TRUE, <<TranscriptSegment(0, 1, <<Words(4)>>)>>)]}

\* What append_frame_analysis is given: a raw response, a raw response that
\* quotes the placeholder token for a merged group, a parsed analysis, and a
\* failed analysis.
Appends ==
    {[frame_info |-> FrameInfo(0, 0),
      result |-> ClaudeAnalysisResult(TRUE, <<Words(5)>>, NoAnalysis, <<>>),
      group |-> NoGroup],
     [frame_info |-> FrameInfo(1, 1),
      result |-> ClaudeAnalysisResult(TRUE, <<Words(6), Placeholder>>, NoAnalysis, <<>>),
      group |-> FrameGroup(FrameInfo(1, 1), 1, 2, 2, <<1, 2>>)],
     [frame_info |-> FrameInfo(3, 5),
      result |-> ClaudeAnalysisResult(TRUE, <<>>,
                    ParsedAnalysis(<<Words(7)>>, <<>>, <<(<<Words(8)>>)>>), <<>>),
      group |-> FrameGroup(FrameInfo(3, 5), 5, 5, 1, <<3>>)],
     [frame_info |-> FrameInfo(4, 6),
      result |-> ClaudeAnalysisResult(FALSE, <<>>, NoAnalysis, <<>>),
      group |-> NoGroup]}

\* The summaries given to insert_summary.
Summaries == {<<Words(9)>>, <<Words(10), Words(11)>>}

\* The file at report_path when the generator is constructed: none, or the
\* report of an earlier run.
OldFiles ==
    {NoFile, File(GenerateHeader(VideoMetadata(1, <<Words(1)>>, <<>>)) \o <<Words(0)>>)}

InitReport ==
    /\ AnalyzerUnused
    /\ SimilarityUnused
    /\ RestUnused
    /\ generator = NewGenerator
    /\ report_file \in OldFiles
    /\ calls = <<>>
    /\ before = [file |-> NoFile, generator |-> NewGenerator, arg |-> NoArg]

\* Every call is recorded with what it returned; raised tells whether an
\* exception left the method.
Returned(op, arg, ret) ==
    /\ calls' = Append(calls, [op |-> op, ret |-> ret, raised |-> FALSE])
    /\ before' = [file |-> report_file, generator |-> generator, arg |-> arg]

KeepOld(old, content) == old \o content

\* with open(report_path, 'w') as f: f.write(content)
OpenWrite(old, content) == content

Overwrite(old, content) == content

Buffered(old, content) == old

\* with open(report_path, 'a') as f: f.write(content)
OpenAppend(old, content) == old \o content

AlwaysInitialized(gen) == TRUE

\* self._initialized
IsInitialized(gen) == gen.initialized

\* initialize(metadata, transcript). fault: the step that raises, if any
\* (makedirs, open, or _generate_header after the file was opened).
initialize(metadata, transcript, fault) ==
    IF fault = "makedirs"
    THEN /\ Returned("initialize", [NoArg EXCEPT !.metadata = metadata], FALSE)
         /\ UNCHANGED <<generator, report_file>>
    ELSE /\ generator' =
              [generator EXCEPT !.transcript = transcript,
                                !.initialized = IF fault = "none" THEN TRUE ELSE @]
         /\ report_file' =
              IF fault = "open" THEN report_file
              ELSE IF fault = "header" THEN File(<<>>)
              ELSE File(OpenWrite(report_file.content, GenerateHeader(metadata)))
         /\ Returned("initialize", [NoArg EXCEPT !.metadata = metadata], fault = "none")

\* append_frame_analysis(frame, analysis_result, group). fault: the step that
\* raises, if any (_generate_frame_section, open, or the write's encoding).
append_frame_analysis(frame_info, result, group, fault) ==
    IF ~IsInitialized(generator)
    THEN /\ fault = "none"
         /\ Returned("append_frame_analysis", NoArg, FALSE)
         /\ UNCHANGED <<generator, report_file>>
    ELSE IF fault \in {"section", "open"}
    THEN /\ Returned("append_frame_analysis", NoArg, FALSE)
         /\ UNCHANGED <<generator, report_file>>
    ELSE IF fault = "write"
    THEN /\ Returned("append_frame_analysis", NoArg, FALSE)
         /\ report_file' = File(report_file.content)
         /\ UNCHANGED generator
    ELSE /\ report_file' =
              File(OpenAppend(report_file.content,
                              GenerateFrameSection(generator, frame_info, result, group)))
         /\ generator' = [generator EXCEPT !.frame_count = @ + 1]
         /\ Returned("append_frame_analysis", NoArg, TRUE)

\* insert_summary(summary). fault: the step that raises, if any (reading the
\* file, or the write's encoding after the file was opened for writing).
insert_summary(summary, fault) ==
    IF ~IsInitialized(generator)
    THEN /\ fault = "none"
         /\ Returned("insert_summary", [NoArg EXCEPT !.summary = summary], FALSE)
         /\ UNCHANGED <<generator, report_file>>
    ELSE IF fault = "read" \/ ~report_file.exists
    THEN /\ fault \in {"none", "read"}
         /\ Returned("insert_summary", [NoArg EXCEPT !.summary = summary], FALSE)
         /\ UNCHANGED <<generator, report_file>>
    ELSE IF ~Contains(report_file.content, Placeholder)
    THEN /\ fault = "none"
         /\ Returned("insert_summary", [NoArg EXCEPT !.summary = summary], FALSE)
         /\ UNCHANGED <<generator, report_file>>
    ELSE IF fault = "write"
    THEN /\ Returned("insert_summary", [NoArg EXCEPT !.summary = summary], FALSE)
         /\ report_file' = File(<<>>)
         /\ UNCHANGED generator
    ELSE /\ report_file' =
              File(OpenWrite(report_file.content,
                             Replace(report_file.content, Placeholder, summary)))
         /\ Returned("insert_summary", [NoArg EXCEPT !.summary = summary], TRUE)
         /\ UNCHANGED generator

\* finalize(). fault: open raises, or nothing does.
finalize(fault) ==
    IF ~IsInitialized(generator)
    THEN /\ fault = "none"
         /\ Returned("finalize", NoArg, FALSE)
         /\ UNCHANGED <<generator, report_file>>
    ELSE IF fault = "open"
    THEN /\ Returned("finalize", NoArg, FALSE)
         /\ UNCHANGED <<generator, report_file>>
    ELSE /\ report_file' = File(OpenAppend(report_file.content, GenerateFooter(generator)))
         /\ Returned("finalize", NoArg, TRUE)
         /\ UNCHANGED generator

\* A call made on the generator by a caller that does nothing else.
StandaloneCall ==
    /\ Len(calls) < MaxCalls
    /\ UNCHANGED <<anavars, simvars, restvars>>

Initialize(metadata, transcript, fault) ==
    StandaloneCall /\ initialize(metadata, transcript, fault)

AppendFrameAnalysis(frame_info, result, group, fault) ==
    StandaloneCall /\ append_frame_analysis(frame_info, result, group, fault)

InsertSummary(summary, fault) ==
    StandaloneCall /\ insert_summary(summary, fault)

Finalize(fault) ==
    StandaloneCall /\ finalize(fault)

NextReport ==
    \/ \E i \in Initializations : \E fault \in {"none", "makedirs", "open", "header"} :
          Initialize(i.metadata, i.transcript, fault)
    \/ \E a \in Appends : \E fault \in {"none", "section", "open", "write"} :
          AppendFrameAnalysis(a.frame_info, a.result, a.group, fault)
    \/ \E summary \in Summaries : \E fault \in {"none", "read", "write"} :
          InsertSummary(summary, fault)
    \/ \E fault \in {"none", "open"} : Finalize(fault)

SpecReport == InitReport /\ [][NextReport]_vars

\* ------------------------------------------------------------- properties
Done(ref) == frame[ref].pc = "returned"

Made(ref) == Len(attempts[ref])

AttemptFailed(ref, i) == attempts[ref][i].exc # ""

CountIn(seq, x) == Cardinality({i \in 1..Len(seq) : seq[i] = x})

\* C1: a freshly created task whose analysis fails on every attempt gets
\* exactly MAX_RETRY_COUNT + 1 = 2 analyze_frame calls and then ends Failed
\* with retry_count 2, no result and a non-empty error_message; no task's
\* retry_count ever exceeds MAX_RETRY_COUNT + 1.
C1_AlwaysFailingEndsFailed ==
    /\ MAX_RETRY_COUNT + 1 = 2
    /\ \A ref \in Refs :
          /\ heap[ref].retry_count <= MAX_RETRY_COUNT + 1
          /\ Made(ref) <= MAX_RETRY_COUNT + 1
          /\ (Done(ref) /\ \A i \in 1..Made(ref) : AttemptFailed(ref, i))
                => /\ Made(ref) = MAX_RETRY_COUNT + 1
                   /\ heap[ref].status = FAILED
                   /\ heap[ref].retry_count = MAX_RETRY_COUNT + 1
                   /\ heap[ref].result = NoResult
                   /\ heap[ref].error_message # ""

C1_Witness ==
    \E ref \in Refs :
        /\ Done(ref)
        /\ Made(ref) = 2
        /\ \A i \in 1..Made(ref) : AttemptFailed(ref, i)
        /\ heap[ref].status = FAILED

\* C2: a freshly created task whose first attempt fails is attempted a second
\* time, and if that attempt succeeds the task ends Completed with the second
\* attempt's result stored and retry_count 1.
C2_RetrySucceeds ==
    \A ref \in Refs :
        (Done(ref) /\ Made(ref) >= 1 /\ AttemptFailed(ref, 1))
            => /\ Made(ref) = 2
               /\ ~AttemptFailed(ref, 2)
                    => /\ heap[ref].status = COMPLETED
                       /\ heap[ref].result = attempts[ref][2].result
                       /\ heap[ref].result # NoResult
                       /\ heap[ref].retry_count = 1

C2_Witness ==
    \E ref \in Refs :
        /\ Done(ref)
        /\ Made(ref) = 2
        /\ AttemptFailed(ref, 1)
        /\ ~AttemptFailed(ref, 2)
        /\ heap[ref].status = COMPLETED

\* C3: a task whose first attempt succeeds is never retried: analyze_frame is
\* called exactly once for it and it ends Completed with retry_count 0.
C3_NoRetryOnSuccess ==
    \A ref \in Refs :
        (Made(ref) >= 1 /\ ~AttemptFailed(ref, 1))
            => /\ Made(ref) = 1
               /\ heap[ref].retry_count = 0
               /\ heap[ref].result = attempts[ref][1].result
               /\ Done(ref) => heap[ref].status = COMPLETED

C3_Witness ==
    \E ref \in Refs :
        /\ Done(ref)
        /\ Made(ref) = 1
        /\ ~AttemptFailed(ref, 1)
        /\ heap[ref].status = COMPLETED
        /\ heap[ref].retry_count = 0

\* One step of the task table: a task that appears is Pending with no result
\* and retry_count 0; a task that was there keeps its status or moves
\* Pending -> Running or Running -> Completed or Failed.
C4_StatusStep ==
    \A ref \in 1..Len(heap') :
        IF ref > Len(heap)
        THEN /\ heap'[ref].status = PENDING
             /\ heap'[ref].result = NoResult
             /\ heap'[ref].retry_count = 0
        ELSE \/ heap'[ref].status = heap[ref].status
             \/ heap[ref].status = PENDING /\ heap'[ref].status = RUNNING
             \/ heap[ref].status = RUNNING /\ heap'[ref].status \in {COMPLETED, FAILED}

\* C4: every task starts Pending with no result and retry_count 0, and during
\* run_parallel its status only moves Pending -> Running and Running ->
\* Completed or Failed: never from Pending to a terminal status, and never
\* away from Completed or Failed.
C4_Lifecycle == [][C4_StatusStep]_vars

C4_Witness ==
    /\ rp.pc = "returned"
    /\ \E ref \in Refs : heap[ref].status = COMPLETED
    /\ \E ref \in Refs : heap[ref].status = FAILED

\* C5: whatever the interleaving and the completion order, the list
\* run_parallel returns is a permutation of the results of exactly the tasks
\* that ended Completed, in non-decreasing timestamp order; aggregate_results
\* returns a permutation of the list it was given, sorted by timestamp.
IsSortedByTimestamp(seq) ==
    \A i \in 1..(Len(seq) - 1) : seq[i].timestamp <= seq[i + 1].timestamp

C5_SortedCompletedResults ==
    rp.pc = "returned" =>
        /\ IsSortedByTimestamp(rp.ret)
        /\ Len(rp.ret) = Cardinality({ref \in TaskSet(rp.tasks) : heap[ref].status = COMPLETED})
        /\ \A ref \in TaskSet(rp.tasks) :
              /\ heap[ref].status = COMPLETED =>
                    CountIn(rp.ret, heap[ref].result) =
                        Cardinality({r \in TaskSet(rp.tasks) :
                                        /\ heap[r].status = COMPLETED
                                        /\ heap[r].result = heap[ref].result})
              /\ heap[ref].status = FAILED => heap[ref].result = NoResult
        /\ Len(rp.ret) = Len(rp.results)
        /\ \A i \in 1..Len(rp.results) :
              CountIn(rp.ret, rp.results[i]) = CountIn(rp.results, rp.results[i])

C5_Witness ==
    /\ rp.pc = "returned"
    /\ Len(rp.ret) = 2
    /\ rp.ret # rp.results

\* C6: when control leaves run_parallel, every task passed to it is Completed
\* or Failed: none is Pending or Running.
C6_ReturnsAfterAllTerminal ==
    rp.pc \in {"returned", "raised"} =>
        \A ref \in TaskSet(rp.tasks) : heap[ref].status \in {COMPLETED, FAILED}

C6_Witness ==
    /\ rp.pc = "returned"
    /\ Len(rp.tasks) = 2
    /\ heap[rp.tasks[1]].status = FAILED
    /\ heap[rp.tasks[2]].status = COMPLETED

\* C7: a task that ends Failed never aborts the batch: no exception leaves
\* run_parallel, with or without a progress callback, and the list it
\* returns holds the result of every task that succeeded within its attempts.
C7_FailedTaskNeverAborts ==
    /\ (\E ref \in TaskSet(rp.tasks) : heap[ref].status = FAILED)
            => rp.pc \notin {"unwinding", "raised"}
    /\ rp.pc = "returned" =>
            \A ref \in TaskSet(rp.tasks) :
                (\E i \in 1..Made(ref) : ~AttemptFailed(ref, i))
                    => CountIn(rp.ret, heap[ref].result) >= 1

\* The ways the CLI call itself fails.
TransientKinds == {"TimeoutExpired", "nonzero", "FileNotFoundError", "OSError"}

CliKindOf(ref, i) == attempts[ref][i].env.cli.kind

CliInvoked(ref, i) == attempts[ref][i].env.file_exists

\* A task whose first attempt failed is attempted once more, and ends Failed
\* with error_message set exactly when the second attempt failed as well.
RetriedOnce(ref) ==
    /\ Made(ref) = 2
    /\ heap[ref].status = FAILED <=> AttemptFailed(ref, 2)
    /\ heap[ref].error_message # "" <=> AttemptFailed(ref, 2)

MockAnalysis(frame_info) == ParseAnalysisResult(GenerateMockResponse, frame_info).result

ExpectedType ==
    [description |-> "str", objects |-> "list", text_content |-> "list",
     people_count |-> "num", scene_type |-> "str", key_points |-> "list",
     confidence |-> "num"]

\* A response that is not a JSON object of the expected shape: no JSON at
\* all, JSON of another type, or an object with a wrong-typed member.
Malformed(response_text) ==
    LET loaded == JsonLoads(JsonPart(response_text))
    IN \/ loaded.exc # ""
       \/ loaded.data.ty # "object"
       \/ \E key \in Keys :
             loaded.data.members[key].ty \notin {"absent", ExpectedType[key]}

\* C9: malformed output of the vision primitive is never a task failure: the
\* attempt succeeds, the task is neither retried nor marked Failed, and for
\* output that is no JSON object the result has confidence 0.3 and empty
\* objects, text_content and key_points. (The description being the raw text
\* is a further conjunct of the claim, not stated here.)
C9_MalformedOutputFallsBack ==
    \A ref \in Refs : \A i \in 1..Made(ref) :
        LET a == attempts[ref][i]
            loaded == JsonLoads(JsonPart(a.env.cli.stdout))
        IN (a.env.file_exists /\ a.env.cli.kind = "exit0" /\ Malformed(a.env.cli.stdout))
            => /\ a.exc = ""
               /\ Made(ref) = i
               /\ heap[ref].status # FAILED
               /\ (loaded.exc # "" \/ loaded.data.ty # "object")
                    => /\ a.result.confidence = 3
                       /\ a.result.objects = PyList("")
                       /\ a.result.text_content = PyList("")
                       /\ a.result.key_points = PyList("")

\* C10: create_tasks returns exactly one task per input frame, the tasks'
\* frame ids form the multiset of the input frame ids, all task ids are
\* pairwise distinct, also across create_tasks calls, and the registry holds
\* every task ever created.
C10_TaskFrameBijection ==
    /\ Len(created) = Len(frames_arg)
    /\ \A i \in 1..Len(frames_arg) :
          LET id == frames_arg[i].frame_id
          IN Cardinality({j \in 1..Len(created) : heap[created[j]].frame_info.frame_id = id})
               = Cardinality({j \in 1..Len(frames_arg) : frames_arg[j].frame_id = id})
    /\ \A i \in 1..Len(created) : \A j \in 1..Len(created) :
          i # j => created[i] # created[j]
    /\ \A a \in Refs : \A b \in Refs :
          a # b => heap[a].task_id # heap[b].task_id
    /\ Cardinality(DOMAIN registry) = Len(heap)
    /\ \A ref \in Refs :
          /\ heap[ref].task_id \in DOMAIN registry
          /\ registry[heap[ref].task_id] = ref

C10_Witness ==
    /\ Len(created) = 2
    /\ Len(heap) > Len(created)
    /\ frames_arg[1].frame_id = frames_arg[2].frame_id
    /\ heap[1].frame_info.frame_id = frames_arg[1].frame_id

\* C11: in every state reached by create_tasks, update_task_status and task
\* executions, get_analysis_summary reports total_tasks as the size of the
\* registry, each of pending, running, completed and failed as the number of
\* registered tasks in that status, the four adding up to total_tasks, and
\* success_rate = completed / total_tasks, or 0 for an empty registry.
C11_SummaryCounts ==
    LET summary == GetAnalysisSummary(heap, registry)
        InStatus(st) == Cardinality({id \in DOMAIN registry : heap[registry[id]].status = st})
    IN /\ summary.total_tasks = Cardinality(DOMAIN registry)
       /\ summary.pending = InStatus(PENDING)
       /\ summary.running = InStatus(RUNNING)
       /\ summary.completed = InStatus(COMPLETED)
       /\ summary.failed = InStatus(FAILED)
       /\ summary.pending + summary.running + summary.completed + summary.failed
            = summary.total_tasks
       /\ IF summary.total_tasks = 0
          THEN summary.success_rate = ZeroRate
          ELSE /\ summary.success_rate.den > 0
               /\ summary.success_rate.num * summary.total_tasks
                    = summary.completed * summary.success_rate.den

C11_Witness ==
    LET summary == GetAnalysisSummary(heap, registry)
    IN /\ summary.total_tasks = 3
       /\ summary.completed = 1
       /\ summary.failed = 1
       /\ summary.running = 1
       /\ summary.success_rate = [num |-> 1, den |-> 3]
       /\ \E ref \in Refs : Made(ref) = 2

\* The frame ids of the groups, one after the other.
RECURSIVE ConcatFrameIds(_)
ConcatFrameIds(groups) ==
    IF groups = <<>> THEN <<>>
    ELSE Head(groups).frame_ids \o ConcatFrameIds(Tail(groups))

RECURSIVE SumFrameCounts(_)
SumFrameCounts(groups) ==
    IF groups = <<>> THEN 0
    ELSE Head(groups).frame_count + SumFrameCounts(Tail(groups))

\* Position in the input of the first frame of group g.
RECURSIVE GroupStart(_, _)
GroupStart(groups, g) ==
    IF g = 1 THEN 1 ELSE GroupStart(groups, g - 1) + Len(groups[g - 1].frame_ids)

\* C12: for a timestamp-sorted input and any threshold the groups partition
\* the input: their frame_ids, concatenated in output order, are the input's
\* frame ids in input order, the frame_count values add up to the input
\* length, no group is empty, and each group's representative is its first
\* member, with start_time <= representative.timestamp <= end_time.
C12_GroupsPartitionInput ==
    detection.called =>
        LET frames == detection.frames
            groups == detection.result.groups
        IN /\ ConcatFrameIds(groups) = [i \in 1..Len(frames) |-> frames[i].frame_id]
           /\ SumFrameCounts(groups) = Len(frames)
           /\ detection.result.original_count = Len(frames)
           /\ detection.result.merged_count = Len(groups)
           /\ \A g \in 1..Len(groups) :
                 /\ groups[g].frame_count = Len(groups[g].frame_ids)
                 /\ groups[g].frame_count >= 1
                 /\ groups[g].representative_frame = frames[GroupStart(groups, g)]
                 /\ groups[g].start_time <= groups[g].representative_frame.timestamp
                 /\ groups[g].representative_frame.timestamp <= groups[g].end_time
                 /\ groups[g].end_time =
                        frames[GroupStart(groups, g) + groups[g].frame_count - 1].timestamp

C12_Witness ==
    /\ detection.called
    /\ IMAGEHASH_AVAILABLE
    /\ Len(detection.frames) = 4
    /\ Len(detection.result.groups) = 2
    /\ detection.result.groups[1].frame_count = 3
    /\ detection.result.groups[1].start_time < detection.result.groups[1].end_time

\* The group that holds the frame at input position i.
GroupOf(groups, i) ==
    CHOOSE g \in 1..Len(groups) :
        /\ GroupStart(groups, g) <= i
        /\ i < GroupStart(groups, g) + Len(groups[g].frame_ids)

\* floor(hash_bit_count * (1 - threshold)) for a threshold in hundredths
FloorLimit(det) ==
    (det.hash_size * det.hash_size * (ThresholdScale - det.similarity_threshold))
        \div ThresholdScale

\* C13: with hashing available, the frame at position i joins the group of
\* its predecessor if and only if both it and that group's first frame (the
\* anchor) have a hash and the Hamming distance of the two is at most
\* floor(hash_bit_count * (1 - threshold)); otherwise it is the first frame
\* of the next group, so a group that was closed gets no further frame.
C13_JoinsIffCloseToAnchor ==
    (detection.called /\ IMAGEHASH_AVAILABLE) =>
        LET frames == detection.frames
            hashes == detection.images
            groups == detection.result.groups
        IN /\ ConcatFrameIds(groups) = [i \in 1..Len(frames) |-> frames[i].frame_id]
           /\ \A i \in 2..Len(frames) :
                 LET g == GroupOf(groups, i - 1)
                     anchor == GroupStart(groups, g)
                     close == /\ ~hashes[i].none
                              /\ ~hashes[anchor].none
                              /\ HammingDistance(hashes[i], hashes[anchor]) <= FloorLimit(detector)
                 IN IF close
                    THEN GroupOf(groups, i) = g
                    ELSE /\ GroupOf(groups, i) = g + 1
                         /\ GroupStart(groups, g + 1) = i

\* The third frame joins the group of the first, two bits from the anchor
\* and four from its predecessor; the fourth, three bits from the anchor,
\* opens the next group.
C13_Witness ==
    /\ detection.called
    /\ IMAGEHASH_AVAILABLE
    /\ Len(detection.frames) = 4
    /\ detector.max_hamming_distance = 2
    /\ detection.images[1] = ImageHash({})
    /\ detection.images[2] = ImageHash({1, 2})
    /\ detection.images[3] = ImageHash({3, 4})
    /\ detection.images[4] = ImageHash({5, 6, 7})
    /\ Len(detection.result.groups) = 2
    /\ detection.result.groups[1].frame_ids = <<0, 1, 2>>

\* What the detector's call had returned with threshold t on the same frames
\* and the same images.
WithThreshold(t) ==
    DetectAndMerge(FrameSimilarityDetector(t, detector.hash_size),
                   IMAGEHASH_AVAILABLE, detection.frames, detection.images)

\* C14 as claimed: for thresholds t1 <= t2, detect_and_merge with t2 returns
\* at least as many groups as with t1 on the same frames and hashes.
C14_MoreGroupsWhenStricter ==
    detection.called =>
        \A t \in Thresholds :
            t >= detector.similarity_threshold =>
                Len(WithThreshold(t).groups) >= Len(detection.result.groups)

\* C14 amended: for thresholds t1 <= t2 the Hamming distance allowed with t2
\* is at most the one allowed with t1 and the first group with t2 is a
\* prefix of the first group with t1; the number of groups with t2 is at
\* least the number with t1 for inputs of up to three frames.
C14_FirstGroupShrinks ==
    detection.called =>
        \A t \in Thresholds :
            t >= detector.similarity_threshold =>
                LET stricter == WithThreshold(t)
                    first == detection.result.groups[1].frame_ids
                IN /\ MaxHammingDistance(detector.hash_size, t) <= detector.max_hamming_distance
                   /\ detection.frames # <<>> =>
                         /\ Len(stricter.groups[1].frame_ids) <= Len(first)
                         /\ stricter.groups[1].frame_ids
                              = SubSeq(first, 1, Len(stricter.groups[1].frame_ids))
                   /\ Len(detection.frames) <= 3 =>
                         Len(stricter.groups) >= Len(detection.result.groups)

C14_Witness ==
    /\ detection.called
    /\ IMAGEHASH_AVAILABLE
    /\ Len(detection.frames) = 3
    /\ Len(detection.result.groups) = 1
    /\ \E t \in Thresholds :
          /\ t > detector.similarity_threshold
          /\ Len(WithThreshold(t).groups) = 3

\* C15: without the hashing library detect_and_merge returns one singleton
\* group per input frame, in input order, with start_time = end_time = the
\* frame's timestamp, merged_count = original_count and reduction_ratio 0;
\* for an empty input the result is empty.
C15_DegradedSingletons ==
    (detection.called /\ ~IMAGEHASH_AVAILABLE) =>
        LET frames == detection.frames
            result == detection.result
        IN /\ Len(result.groups) = Len(frames)
           /\ result.original_count = Len(frames)
           /\ result.merged_count = result.original_count
           /\ result.reduction_ratio = ZeroRate
           /\ \A i \in 1..Len(frames) :
                 /\ result.groups[i].representative_frame = frames[i]
                 /\ result.groups[i].frame_ids = <<frames[i].frame_id>>
                 /\ result.groups[i].frame_count = 1
                 /\ result.groups[i].start_time = frames[i].timestamp
                 /\ result.groups[i].end_time = frames[i].timestamp

\* Identical images that hashing would merge stay apart without the library.
C15_Witness ==
    /\ detection.called
    /\ ~IMAGEHASH_AVAILABLE
    /\ Len(detection.frames) = 3
    /\ \A i \in 1..3 : detection.images[i] = ImageHash({})
    /\ detector.max_hamming_distance = 9
    /\ Len(detection.result.groups) = 3

\* The last call made on the generator.
LastCall == calls[Len(calls)]

\* The position in calls of the last initialize that returned True (0: none).
LastInitialize ==
    IF \E i \in 1..Len(calls) : calls[i].op = "initialize" /\ calls[i].ret
    THEN CHOOSE i \in 1..Len(calls) :
            /\ calls[i].op = "initialize" /\ calls[i].ret
            /\ \A j \in (i + 1)..Len(calls) : ~(calls[j].op = "initialize" /\ calls[j].ret)
    ELSE 0

\* A frame section is told by the heading append_frame_analysis gives it.
FrameSections(content) ==
    Cardinality({i \in 1..Len(content) : content[i].k = "frame_heading"})

\* C16: when initialize has returned True and only append_frame_analysis
\* calls followed, N of them returning True, and no finalize, the report file
\* on disk holds exactly N frame sections, for N = 0 too.
C16_SectionsOnDisk ==
    (/\ LastInitialize > 0
     /\ \A j \in (LastInitialize + 1)..Len(calls) : calls[j].op = "append_frame_analysis")
        => /\ report_file.exists
           /\ FrameSections(report_file.content)
                = Cardinality({j \in (LastInitialize + 1)..Len(calls) : calls[j].ret})

C16_Witness ==
    /\ Len(calls) = 4
    /\ LastInitialize = 1
    /\ \A j \in 2..4 : calls[j].op = "append_frame_analysis"
    /\ calls[2].ret /\ ~calls[3].ret /\ calls[4].ret
    /\ FrameSections(report_file.content) = 2

\* The last call was append_frame_analysis, insert_summary or finalize on a
\* generator no initialize had returned True for.
MisusedBeforeInitialize ==
    /\ calls # <<>>
    /\ LastCall.op \in {"append_frame_analysis", "insert_summary", "finalize"}
    /\ ~before.generator.initialized

\* The call left the report file and the generator, its frame count
\* included, as they were.
LastCallChangedNothing ==
    /\ report_file = before.file
    /\ generator = before.generator

\* C17 as stated: append_frame_analysis, insert_summary or finalize on a
\* generator that was never successfully initialized raises to the caller and
\* leaves the report file and the frame count unchanged.
C17_MisuseRaises ==
    MisusedBeforeInitialize => LastCall.raised /\ LastCallChangedNothing

\* C17 as the code has it: such a call raises nothing and returns False, and
\* it leaves the report file and the frame count unchanged.
C17_MisuseReturnsFalse ==
    MisusedBeforeInitialize
        => ~LastCall.raised /\ ~LastCall.ret /\ LastCallChangedNothing

C17_Witness ==
    /\ Len(calls) = 3
    /\ calls[1].op = "initialize" /\ ~calls[1].ret
    /\ calls[2].op = "append_frame_analysis"
    /\ calls[3].op = "finalize"
    /\ MisusedBeforeInitialize
    /\ report_file.exists /\ report_file.content # <<>>
    /\ ~LastCall.ret

\* text occurs in content
ContainsText(content, text) ==
    \E i \in 0..(Len(content) - Len(text)) : SubSeq(content, i + 1, i + Len(text)) = text

\* The last call is an insert_summary that returned True, made after an
\* initialize that returned True and nothing but appends in between.
SummaryInsertedAfterAppends ==
    /\ LastInitialize > 0
    /\ LastInitialize < Len(calls)
    /\ \A j \in (LastInitialize + 1)..(Len(calls) - 1) : calls[j].op = "append_frame_analysis"
    /\ LastCall.op = "insert_summary"
    /\ LastCall.ret

\* C18: after initialize and any appends, insert_summary(text) replaces the
\* first occurrence of the placeholder token, and only that one, with text and
\* changes nothing else; the file then contains text and no placeholder token,
\* and an insert_summary call that follows leaves the file unchanged.
C18_SummaryReplacesFirstOnly ==
    /\ SummaryInsertedAfterAppends
        => /\ report_file.content
                = ReplaceFirstOnly(before.file.content, Placeholder, before.arg.summary)
           /\ ContainsText(report_file.content, before.arg.summary)
           /\ ~Contains(report_file.content, Placeholder)
    /\ (/\ Len(calls) >= 2
        /\ calls[Len(calls) - 1].op = "insert_summary" /\ calls[Len(calls) - 1].ret
        /\ LastCall.op = "insert_summary")
        => report_file = before.file

\* What one initialize(metadata) on a new generator leaves in an empty directory.
SingleInitialize(metadata) ==
    File(OpenWrite(NoFile.content, GenerateHeader(metadata)))

\* C19: an initialize that returns True, whatever appends, summary insertion
\* or finalize came before it, leaves the report file with exactly the content
\* of a single initialize with the same metadata: the header with one summary
\* placeholder and the detail heading last, and no frame section.
C19_InitializeOverwrites ==
    (calls # <<>> /\ LastCall.op = "initialize" /\ LastCall.ret)
        => /\ report_file = SingleInitialize(before.arg.metadata)
           /\ FrameSections(report_file.content) = 0
           /\ Cardinality({i \in 1..Len(report_file.content) :
                              report_file.content[i] = Placeholder}) = 1
           /\ report_file.content[Len(report_file.content)].k = "detail_heading"

C19_Witness ==
    /\ Len(calls) = 4
    /\ calls[1].op = "initialize" /\ calls[1].ret
    /\ calls[2].op = "append_frame_analysis" /\ calls[2].ret
    /\ calls[3].op \in {"insert_summary", "finalize"} /\ calls[3].ret
    /\ LastCall.op = "initialize" /\ LastCall.ret
    /\ FrameSections(before.file.content) = 1
    /\ report_file = SingleInitialize(before.arg.metadata)

IsPrefix(old, new) ==
    Len(old) <= Len(new) /\ SubSeq(new, 1, Len(old)) = old

FooterFrameCount(content) == content[Len(content)].a

\* C26: the frame count finalize writes in the footer equals the number of
\* frame sections in the report file at that moment, after any sequence of
\* initialize (repeated or not), append_frame_analysis and insert_summary.
C26_FooterCountsSections ==
    (/\ calls # <<>>
     /\ LastCall.op = "finalize" /\ LastCall.ret
     /\ \A j \in 1..(Len(calls) - 1) : calls[j].op # "finalize")
        => /\ report_file.content[Len(report_file.content)].k = "footer"
           /\ FooterFrameCount(report_file.content) = FrameSections(report_file.content)

ResultIffCompleted(task) ==
    /\ task.result # NoResult <=> task.status = COMPLETED
    /\ task.error_message # "" <=> task.status = FAILED

\* C27 as stated: in every reachable state of a run over freshly created
\* tasks, states in the middle of a worker's execution included, a task has a
\* result if and only if its status is Completed and a non-empty
\* error_message if and only if its status is Failed.
C27_ResultIffCompletedAlways ==
    \A ref \in 1..Len(heap) : ResultIffCompleted(heap[ref])

\* C27 as the code has it: in every reachable state a Completed task has a
\* result and a task with an error_message is Failed; the two converses hold
\* for every task no worker is executing at that moment.
C27_ResultIffCompletedWhenQuiet ==
    \A ref \in 1..Len(heap) :
        /\ heap[ref].status = COMPLETED => heap[ref].result # NoResult
        /\ heap[ref].error_message # "" => heap[ref].status = FAILED
        /\ ~Executing(ref) => ResultIffCompleted(heap[ref])

\* Two tasks in one run: one returned Failed with its message, while the
\* other holds its result and is still Running.
C27_Witness ==
    /\ Len(heap) >= 2
    /\ \E a, b \in 1..Len(heap) :
          /\ frame[a].pc = "returned"
          /\ heap[a].status = FAILED /\ heap[a].error_message # ""
          /\ frame[b].pc = "store_completed"
          /\ heap[b].status = RUNNING /\ heap[b].result # NoResult

\* C28: with the hashing library available, a frame whose hash could not be
\* computed is merged with no other frame: its group holds that frame alone;
\* and the groups are still a partition of the frames in input order.
C28_UnhashedFrameIsAlone ==
    (detection.called /\ IMAGEHASH_AVAILABLE) =>
        LET frames == detection.frames
            groups == detection.result.groups
        IN /\ ConcatFrameIds(groups) = [i \in 1..Len(frames) |-> frames[i].frame_id]
           /\ SumFrameCounts(groups) = Len(frames)
           /\ \A i \in 1..Len(frames) :
                 detection.images[i].none =>
                    /\ groups[GroupOf(groups, i)].frame_ids = <<frames[i].frame_id>>
                    /\ groups[GroupOf(groups, i)].frame_count = 1
                    /\ groups[GroupOf(groups, i)].representative_frame = frames[i]

\* The second of four frames has no hash and sits alone between the first
\* frame and the merged group of the third and fourth, whose hashes are equal
\* to the first frame's.
C28_Witness ==
    /\ detection.called /\ IMAGEHASH_AVAILABLE
    /\ Len(detection.frames) = 4
    /\ detection.images[2].none
    /\ detection.images[1] = detection.images[3]
    /\ ~detection.images[1].none
    /\ Len(detection.result.groups) = 3
    /\ detection.result.groups[2].frame_ids = <<detection.frames[2].frame_id>>
    /\ detection.result.groups[3].frame_count = 2

\* ------------------------------------------------------- VideoDownloader
MaxRetries == 3

\* How many of the first download attempts the network lets fail.
MaxFailures == 4

\* What makes an attempt fail: session.get or raise_for_status raises a
\* RequestException (no file yet), writing the file raises an IOError (part
\* of the file is there), or verify_integrity returns False for the file.
FailKinds == {"RequestException", "IOError", "integrity"}

\* The file an attempt leaves at output_path before the except clause runs.
FileLeftBy(kind, file) ==
    CASE kind = "RequestException" -> file
      [] kind = "IOError" -> "partial"
      [] kind = "integrity" -> "complete"
      [] OTHER -> "complete"

InitDownload ==
    /\ AnalyzerUnused
    /\ SimilarityUnused
    /\ ReportUnused
    /\ RestUnused

OutsideDownload == UNCHANGED <<anavars, simvars, repvars, clivars, savevars, pipevars>>

\* VideoDownloader(max_retries=...) and the entry of _download_with_retry:
\* last_error = None. failures is the environment's: the first failures
\* attempts fail.
DownloadWithRetry(max_retries, failures) ==
    /\ download.pc = "idle"
    /\ download' = [NoDownload EXCEPT !.pc = "loop", !.max_retries = max_retries,
                                      !.failures = failures]
    /\ OutsideDownload

OneMoreAttempt(d) == d.attempt <= d.max_retries

\* for attempt in range(self.max_retries)
AttemptsLeft(d) == d.attempt < d.max_retries

\* if attempt < self.max_retries - 1: time.sleep(base_delay * 2 ** attempt);
\* the sleeps are recorded by their exponent
SleepsAfter(d) ==
    IF d.attempt < d.max_retries - 1 THEN Append(d.sleeps, d.attempt) ELSE d.sleeps

\* One iteration: _do_download and verify_integrity succeed and the result is
\* returned, or one of them fails, the except clause removes the file when
\* it exists (os.remove may fail, which is ignored) and sleeps.
DownloadAttempt(kind, removed) ==
    /\ download.pc = "loop"
    /\ AttemptsLeft(download)
    /\ IF Len(download.made) < download.failures
       THEN /\ kind \in FailKinds
            /\ download' =
                 [download EXCEPT
                    !.made = Append(@, kind),
                    !.file = IF removed THEN "none" ELSE FileLeftBy(kind, download.file),
                    !.sleeps = SleepsAfter(download),
                    !.attempt = @ + 1]
       ELSE /\ kind = "ok"
            /\ removed = FALSE
            /\ download' =
                 [download EXCEPT !.made = Append(@, kind), !.file = "complete",
                                  !.success = TRUE, !.pc = "returned"]
    /\ OutsideDownload

\* The loop is over: raise DownloadError(..., retry_count=self.max_retries)
DownloadExhausted ==
    /\ download.pc = "loop"
    /\ ~AttemptsLeft(download)
    /\ download' = [download EXCEPT !.pc = "raised", !.retry_count = download.max_retries]
    /\ OutsideDownload

NextDownload ==
    \/ \E max_retries \in 0..MaxRetries : \E failures \in 0..MaxFailures :
          DownloadWithRetry(max_retries, failures)
    \/ \E kind \in FailKinds \cup {"ok"} : \E removed \in BOOLEAN :
          DownloadAttempt(kind, removed)
    \/ DownloadExhausted

SpecDownload == InitDownload /\ [][NextDownload]_vars

Min(a, b) == IF a <= b THEN a ELSE b

\* C24: for max_retries >= 1 and f initial failures, _download_with_retry
\* makes exactly min(f + 1, max_retries) attempts: with f < max_retries it
\* returns success right after the first attempt that succeeds; otherwise it
\* raises DownloadError with retry_count = max_retries after max_retries
\* attempts. While it runs it has made no more attempts than that.
C24_AttemptsMatchConfig ==
    (download.pc # "idle" /\ download.max_retries >= 1) =>
        LET f == download.failures
            n == Min(f + 1, download.max_retries)
        IN /\ Len(download.made) <= n
           /\ download.pc \in {"returned", "raised"} => Len(download.made) = n
           /\ download.pc = "returned"
                <=> (Len(download.made) = f + 1 /\ download.made[f + 1] = "ok")
           /\ download.pc = "returned" => f < download.max_retries /\ download.success
           /\ download.pc = "raised"
                => /\ f >= download.max_retries
                   /\ download.retry_count = download.max_retries
                   /\ ~download.success
           /\ \A i \in 1..Len(download.made) : i <= f => download.made[i] # "ok"

\* Three retries allowed, two failures, success on the third attempt.
C24_Witness ==
    /\ download.pc = "returned"
    /\ download.max_retries = 3
    /\ download.failures = 2
    /\ Len(download.made) = 3
    /\ download.sleeps = <<0, 1>>

\* Three retries allowed, all three attempts fail.
C24_WitnessExhausted ==
    /\ download.pc = "raised"
    /\ download.max_retries = 3
    /\ download.failures >= 3
    /\ Len(download.made) = 3

\* ----------------------------------------- ClaudeCLIAnalyzer.analyze_frame
\* BilibiliAnalyzer constructs ClaudeCLIAnalyzer(max_retries=2); 0 and 1
\* are other values of the parameter.
MaxCliRetries == 2

\* What one invocation of the claude command does: prints a response, prints
\* nothing but white space, exits nonzero, or times out.
CliOutcomes ==
    {[raises |-> FALSE, stdout |-> <<Words(20)>>],
     [raises |-> FALSE, stdout |-> <<>>],
     [raises |-> TRUE, stdout |-> <<Words(21)>>],
     [raises |-> TRUE, stdout |-> <<Words(22)>>]}

InitCliFrame ==
    /\ AnalyzerUnused
    /\ SimilarityUnused
    /\ ReportUnused
    /\ RestUnused

OutsideCli ==
    UNCHANGED <<anavars, simvars, repvars, dlvars, savevars, pipevars, cli_progress, cli_runs>>

\* One analyze_frame call on a new analyzer. outcomes is what the command
\* would do at each of the max_retries + 1 invocations the loop can make.
AnalyzeFrameCall(max_retries, file_exists, outcomes) ==
    /\ ~cli_call.called
    /\ LET r == CliAnalyzeFrame(max_retries, file_exists, outcomes)
       IN cli_call' = [called |-> TRUE, max_retries |-> max_retries,
                       file_exists |-> file_exists, outcomes |-> outcomes,
                       result |-> r.result, invocations |-> r.invocations]
    /\ OutsideCli

NextCliFrame ==
    \E max_retries \in 0..MaxCliRetries : \E file_exists \in BOOLEAN :
        \E outcomes \in [1..(max_retries + 1) -> CliOutcomes] :
            AnalyzeFrameCall(max_retries, file_exists, outcomes)

SpecCliFrame == InitCliFrame /\ [][NextCliFrame]_vars

\* The invocation gave a response that is not empty.
Answered(call) == ~call.raises /\ call.stdout # <<>>

\* C29: analyze_frame invokes the CLI at most max_retries + 1 times, stops at
\* the first invocation that returns a non-empty response, and returns
\* success exactly when some invocation did; an invocation that raises or
\* returns empty text is a failed attempt; a frame whose image file is
\* missing is reported failed with no invocation.
C29_StopsAtFirstResponse ==
    cli_call.called =>
        LET n == cli_call.invocations
            outcomes == cli_call.outcomes
        IN /\ n <= cli_call.max_retries + 1
           /\ ~cli_call.file_exists => (n = 0 /\ ~cli_call.result.success)
           /\ cli_call.file_exists =>
                /\ \A i \in 1..(n - 1) : ~Answered(outcomes[i])
                /\ cli_call.result.success <=> (n >= 1 /\ Answered(outcomes[n]))
                /\ cli_call.result.success => cli_call.result.raw_response = outcomes[n].stdout
                /\ ~cli_call.result.success =>
                      /\ n = cli_call.max_retries + 1
                      /\ cli_call.result.error_message # <<>>

\* The command times out, prints nothing, then answers: three invocations
\* and success.
C29_Witness ==
    /\ cli_call.called /\ cli_call.file_exists
    /\ cli_call.max_retries = 2
    /\ cli_call.invocations = 3
    /\ cli_call.outcomes[1].raises
    /\ cli_call.outcomes[2] = [raises |-> FALSE, stdout |-> <<>>]
    /\ cli_call.result.success

\* ---------------------------------------- ClaudeCLIAnalyzer.analyze_frames
MaxCliFrames == 3

MaxRuns == 3

\* What the claude command does for one frame during one run: it answers at
\* once, it answers after a timeout, it fails at every invocation, or the
\* frame's image file is gone.
FrameEnvs ==
    LET answer == [raises |-> FALSE, stdout |-> <<Words(20)>>]
        timeout == [raises |-> TRUE, stdout |-> <<Words(22)>>]
        error == [raises |-> TRUE, stdout |-> <<Words(21)>>]
        invocations == 1..(MaxCliRetries + 1)
    IN {[file_exists |-> TRUE, outcomes |-> [i \in invocations |-> answer]],
        [file_exists |-> TRUE,
         outcomes |-> [i \in invocations |-> IF i = 1 THEN timeout ELSE answer]],
        [file_exists |-> TRUE, outcomes |-> [i \in invocations |-> error]],
        [file_exists |-> FALSE, outcomes |-> [i \in invocations |-> error]]}

\* The frames every run is given: ids 0, 1, ... at one frame a second.
CliFrames(n) == [i \in 1..n |-> FrameInfo(i - 1, i - 1)]

SeqToSet(seq) == {seq[i] : i \in 1..Len(seq)}

\* self._progress and analyzed_set at the start of a run
StartProgress(resume_from, total) ==
    IF resume_from.given THEN resume_from ELSE AnalysisProgress(total, <<>>, <<>>, -1)

\* The for loop of analyze_frames from index idx on. st holds progress, the
\* results list and the ids analyze_frame was called for.
RECURSIVE FramesLoop(_, _, _, _, _)
FramesLoop(frames, envs, idx, analyzed_set, st) ==
    IF idx > Len(frames) THEN st
    ELSE IF frames[idx].frame_id \in analyzed_set
    THEN FramesLoop(frames, envs, idx + 1, analyzed_set, st)
    ELSE LET r == CliAnalyzeFrame(MaxCliRetries, envs[idx].file_exists, envs[idx].outcomes)
             id == frames[idx].frame_id
             progress ==
                [st.progress EXCEPT
                    !.analyzed_frames = IF r.result.success THEN Append(@, id) ELSE @,
                    !.failed_frames = IF r.result.success THEN @ ELSE Append(@, id),
                    !.last_frame_id = id]
         IN FramesLoop(frames, envs, idx + 1, analyzed_set,
                       [progress |-> progress,
                        results |-> Append(st.results, r.result),
                        analyzed |-> Append(st.analyzed, id)])

InitCliFrames ==
    /\ AnalyzerUnused
    /\ SimilarityUnused
    /\ ReportUnused
    /\ RestUnused

OutsideCliFrames ==
    UNCHANGED <<anavars, simvars, repvars, dlvars, savevars, pipevars, cli_call>>

\* analyze_frames(frames, resume_from=...) without callbacks. resume: the
\* caller passes the progress of the previous run (None when there is none).
AnalyzeFramesRun(frames, envs, cli_available, resume) ==
    /\ Len(cli_runs) < MaxRuns
    /\ cli_runs # <<>> => frames = cli_runs[1].frames
    /\ LET resume_from == IF resume THEN cli_progress ELSE NoProgress
           start == StartProgress(resume_from, Len(frames))
           st == FramesLoop(frames, envs, 1, SeqToSet(start.analyzed_frames),
                            [progress |-> start, results |-> <<>>, analyzed |-> <<>>])
       IN IF ~cli_available
          THEN /\ cli_runs' = Append(cli_runs,
                                [frames |-> frames, resume |-> resume, available |-> FALSE,
                                 started_with |-> cli_progress, analyzed |-> <<>>,
                                 results |-> <<>>])
               /\ UNCHANGED cli_progress
          ELSE /\ cli_runs' = Append(cli_runs,
                                [frames |-> frames, resume |-> resume, available |-> TRUE,
                                 started_with |-> start, analyzed |-> st.analyzed,
                                 results |-> st.results])
               /\ cli_progress' = st.progress
    /\ OutsideCliFrames

NextCliFrames ==
    \E n \in 0..MaxCliFrames : \E envs \in [1..n -> FrameEnvs] :
        \E cli_available, resume \in BOOLEAN :
            AnalyzeFramesRun(CliFrames(n), envs, cli_available, resume)

SpecCliFrames == InitCliFrames /\ [][NextCliFrames]_vars

NoDuplicates(seq) == \A i, j \in 1..Len(seq) : seq[i] = seq[j] => i = j

\* Every run after the first was given the progress of the run before it.
OnlyResumedRuns == \A r \in 2..Len(cli_runs) : cli_runs[r].resume

\* A frame whose id is in analyzed_frames when a run starts is not analyzed
\* in that run.
NeverAnalyzedAgain ==
    \A r \in 1..Len(cli_runs) :
        SeqToSet(cli_runs[r].analyzed)
            \cap SeqToSet(cli_runs[r].started_with.analyzed_frames) = {}

\* C30: across an initial analyze_frames run and any number of resumed runs
\* over the same frames, a frame in analyzed_frames is never analyzed again,
\* no frame id is twice in analyzed_frames, and no frame id is in both
\* analyzed_frames and failed_frames.
C30_ProgressListsConsistent ==
    OnlyResumedRuns =>
        /\ NeverAnalyzedAgain
        /\ NoDuplicates(cli_progress.analyzed_frames)
        /\ SeqToSet(cli_progress.analyzed_frames)
             \cap SeqToSet(cli_progress.failed_frames) = {}

\* ----------------------------------------------- PartialResultSaver
\* The save_partial_report calls made with one report object.
MaxSaves == 2

\* The most frames and the most analyses a report given to the saver holds.
MaxReportItems == 2

ErrorMessages == {"timeout", "disk full"}

\* n analyses, told apart by their descriptions
SomeAnalyses(n) == [i \in 1..n |-> ParsedAnalysis(<<Words(30 + i)>>, <<>>, <<>>)]

\* The report objects a caller holds when it turns to the saver.
Reports ==
    {VideoReport(metadata, CliFrames(f), SomeAnalyses(a), status, errors) :
        metadata \in {NoMetadata, VideoMetadata(1, <<Words(1)>>, <<>>)},
        f \in 0..MaxReportItems, a \in 0..MaxReportItems,
        status \in {"complete", "partial", "failed"},
        errors \in {<<>>, <<"earlier">>}}

InitSaver ==
    /\ AnalyzerUnused
    /\ SimilarityUnused
    /\ ReportUnused
    /\ DownloadUnused
    /\ CliUnused
    /\ PipelineUnused
    /\ \E report \in Reports : saver = [NoSaver EXCEPT !.report = report, !.given = report]

OutsideSaver == UNCHANGED <<anavars, simvars, repvars, dlvars, clivars, pipevars>>

\* saver.save_partial_report(report, error_message) on the report object held
SavePartialReportCall(error_message, write_fails) ==
    /\ saver.saves < MaxSaves
    /\ LET call == SavePartialReport(saver.file, saver.report, error_message, write_fails)
       IN saver' = [saver EXCEPT !.report = call.report, !.given = saver.report,
                                 !.error_message = error_message, !.file = call.file,
                                 !.saves = @ + 1, !.raised = call.raised]
    /\ OutsideSaver

NextSaver ==
    \E error_message \in ErrorMessages : \E write_fails \in BOOLEAN :
        SavePartialReportCall(error_message, write_fails)

SpecSaver == InitSaver /\ [][NextSaver]_vars

\* C23: the file a save_partial_report(report, error_message) call wrote has
\* status "partial" whatever the status of the report was, lists the report's
\* earlier errors followed by error_message, and keeps the report's metadata
\* and as many frames and analyses as the report holds.
C23_PartialReportPreserved ==
    (saver.saves > 0 /\ ~saver.raised)
        => /\ saver.file.exists
           /\ saver.file.status = "partial"
           /\ saver.file.errors = Append(saver.given.errors, saver.error_message)
           /\ saver.file.metadata = saver.given.metadata
           /\ Len(saver.file.frame_ids) = Len(saver.given.frames)
           /\ Len(saver.file.descriptions) = Len(saver.given.analyses)

\* A failed report with an earlier error, two frames and one analysis was
\* saved.
C23_Witness ==
    /\ saver.saves > 0 /\ ~saver.raised
    /\ saver.given.status = "failed"
    /\ saver.given.errors # <<>>
    /\ Len(saver.given.frames) = 2
    /\ Len(saver.given.analyses) = 1
    /\ saver.file.status = "partial"

\* ------------------------------------------------ BilibiliAnalyzer.analyze
\* The most frames the extraction yields in a run.
MaxPipeFrames == 2

\* max_retries of the ClaudeCLIAnalyzer the pipeline constructs
PipelineCliRetries == 2

\* The metadata fetched for the video.
PipelineMetadata == VideoMetadata(1, <<Words(1)>>, <<>>)

\* What compute_hash finds for the frames extracted.
PipelineImages == {ImageHash({}), ImageHash({5, 6, 7})}

\* merge_similar_frames: a detector with the configured threshold
MergeSimilarFrames(available, frames, images) ==
    DetectAndMerge(FrameSimilarityDetector(95, 3), available, frames, images)

\* the key points of the analyses in order, each kept once
RECURSIVE UniquePoints(_, _)
UniquePoints(points, seen) ==
    IF points = <<>> THEN seen
    ELSE UniquePoints(Tail(points),
                      IF \E i \in 1..Len(seen) : seen[i] = Head(points)
                      THEN seen ELSE Append(seen, Head(points)))

RECURSIVE AllKeyPoints(_)
AllKeyPoints(analyses) ==
    IF analyses = <<>> THEN <<>>
    ELSE Head(analyses).key_points \o AllKeyPoints(Tail(analyses))

\* ReportSummaryGenerator.generate_summary_from_analyses
GenerateSummaryFromAnalyses(analyses) ==
    IF analyses = <<>>
    THEN <<Piece("no_results", 0, 0)>>
    ELSE LET unique_points == UniquePoints(AllKeyPoints(analyses), <<>>)
         IN <<Piece("scenes_analyzed", Len(analyses), 0)>>
                \o (IF unique_points # <<>>
                    THEN <<Piece("main_content", 0, 0)>> \o Bullets(unique_points)
                    ELSE <<>>)

\* the result written for a group when the claude command is not available
EmptyResult ==
    ClaudeAnalysisResult(FALSE, <<>>, NoAnalysis, <<Piece("cli_unavailable", 0, 0)>>)

\* A new BilibiliAnalyzer: its report generator, its saver, and the module
\* frame_similarity imported with or without imagehash.
InitPipeline ==
    /\ AnalyzerUnused
    /\ DownloadUnused
    /\ CliUnused
    /\ SaverUnused
    /\ PipelineUnused
    /\ IMAGEHASH_AVAILABLE \in BOOLEAN
    /\ detector = NoDetector
    /\ detection = NoDetection
    /\ generator = NewGenerator
    /\ report_file \in OldFiles
    /\ calls = <<>>
    /\ before = [file |-> NoFile, generator |-> NewGenerator, arg |-> NoArg]

OutsidePipeline == UNCHANGED <<anavars, simvars, dlvars, clivars>>

\* except BilibiliAnalyzerError: the report is marked failed, handed to
\* save_partial_report when it holds anything, and the error is raised again.
\* write_fails: the saver's write raises.
RaiseAnalyzerError(report, message, write_fails) ==
    LET failed == [report EXCEPT !.status = "failed", !.errors = Append(@, message)]
        saves == failed.metadata # NoMetadata \/ failed.frames # <<>>
                    \/ failed.analyses # <<>>
        call == SavePartialReport(saver.file, failed, message, write_fails)
    IN /\ saves \/ ~write_fails
       /\ pipeline' =
            [pipeline EXCEPT
                !.pc = "raised",
                !.report = IF saves THEN call.report ELSE failed,
                !.handed = IF saves THEN Handover("save_partial_report", failed)
                           ELSE NoHandover,
                !.raised = IF saves /\ call.raised THEN "IOError"
                           ELSE "BilibiliAnalyzerError"]
       /\ saver' =
            IF saves
            THEN [saver EXCEPT !.report = call.report, !.given = failed,
                               !.error_message = message, !.file = call.file,
                               !.saves = @ + 1, !.raised = call.raised]
            ELSE saver

\* except Exception: the report is marked failed, its counts are handed to
\* save_error_state, and a BilibiliAnalyzerError is raised in its place.
RaiseUnexpected(report, message) ==
    LET failed == [report EXCEPT !.status = "failed", !.errors = Append(@, message)]
    IN /\ pipeline' =
            [pipeline EXCEPT
                !.pc = "raised",
                !.report = failed,
                !.handed = Handover("save_error_state", failed),
                !.raised = "BilibiliAnalyzerError"]
       /\ saver' =
            [saver EXCEPT
                !.error_state = SaveErrorState(message, Len(failed.frames),
                                               Len(failed.analyses), "unknown")]

\* The stages before the report is initialized that raise a
\* BilibiliAnalyzerError: the URL check, the metadata fetch, the download and
\* the frame extraction.
EarlyStages == {"url", "metadata", "download", "extract"}

\* analyze(url) fails in one of steps 1 to 4.
AnalyzeFailsEarly(stage, write_fails) ==
    /\ pipeline.pc = "idle"
    /\ RaiseAnalyzerError(
          VideoReport(IF stage \in {"download", "extract"} THEN PipelineMetadata
                      ELSE NoMetadata, <<>>, <<>>, "complete", <<>>),
          stage, write_fails)
    /\ UNCHANGED repvars
    /\ OutsidePipeline

\* analyze(url), steps 1 to 6: the metadata, the n frames extracted in
\* timestamp order and their groups.
AnalyzeStart(n, images) ==
    /\ pipeline.pc = "idle"
    /\ pipeline' =
         [pipeline EXCEPT
            !.pc = "step7",
            !.groups = MergeSimilarFrames(IMAGEHASH_AVAILABLE, TimedFrames(n), images).groups,
            !.report = VideoReport(PipelineMetadata, TimedFrames(n), <<>>, "complete", <<>>)]
    /\ UNCHANGED <<repvars, saver>>
    /\ OutsidePipeline

\* Step 7: report_generator.initialize(metadata, transcript_result), the
\* value it returns being dropped, then check_claude_cli().
StepInitialize(fault, cli) ==
    /\ pipeline.pc = "step7"
    /\ initialize(PipelineMetadata, NoTranscript, fault)
    /\ pipeline' = [pipeline EXCEPT !.pc = "step8", !.cli = cli]
    /\ UNCHANGED saver
    /\ OutsidePipeline

\* Step 8, one group: analyze_frame on the representative frame and
\* on_group_analyzed, or the empty result when the claude command is not
\* available; the section is appended and the value append_frame_analysis
\* returns is dropped.
StepGroup(env, fault) ==
    /\ pipeline.pc = "step8"
    /\ pipeline.idx < Len(pipeline.groups)
    /\ LET group == pipeline.groups[pipeline.idx + 1]
           result ==
              IF pipeline.cli
              THEN CliAnalyzeFrame(PipelineCliRetries, env.file_exists, env.outcomes).result
              ELSE EmptyResult
       IN /\ append_frame_analysis(group.representative_frame, result, group, fault)
          /\ pipeline' =
                [pipeline EXCEPT
                    !.idx = @ + 1,
                    !.succeeded = IF result.success THEN @ + 1 ELSE @,
                    !.analyses =
                        IF pipeline.cli /\ result.success /\ result.parsed_analysis # NoAnalysis
                        THEN Append(@, result.parsed_analysis) ELSE @]
    /\ UNCHANGED saver
    /\ OutsidePipeline

\* An exception other than a BilibiliAnalyzerError leaves step 8 or step 9:
\* the import in the loop of line 300, a callback, the logger.
StepRaises(message) ==
    /\ pipeline.pc \in {"step8", "step9"}
    /\ RaiseUnexpected(pipeline.report, message)
    /\ UNCHANGED repvars
    /\ OutsidePipeline

\* report.analyses = analyses, once every group was handled
StepAssign ==
    /\ pipeline.pc = "step8"
    /\ pipeline.idx = Len(pipeline.groups)
    /\ pipeline' = [pipeline EXCEPT !.pc = "step9",
                                    !.report.analyses = pipeline.analyses]
    /\ UNCHANGED <<repvars, saver>>
    /\ OutsidePipeline

\* Step 9: if analyses: insert_summary(generate_summary_from_analyses(...))
StepSummary(fault) ==
    /\ pipeline.pc = "step9"
    /\ IF pipeline.analyses # <<>>
       THEN insert_summary(GenerateSummaryFromAnalyses(pipeline.analyses), fault)
       ELSE fault = "none" /\ UNCHANGED repvars
    /\ pipeline' = [pipeline EXCEPT !.pc = "finalize"]
    /\ UNCHANGED saver
    /\ OutsidePipeline

\* report_generator.finalize(); report.status = "complete"; return report
StepFinalize(fault) ==
    /\ pipeline.pc = "finalize"
    /\ finalize(fault)
    /\ pipeline' = [pipeline EXCEPT !.pc = "returned", !.report.status = "complete"]
    /\ UNCHANGED saver
    /\ OutsidePipeline

NextPipeline ==
    \/ \E stage \in EarlyStages : \E write_fails \in BOOLEAN :
          AnalyzeFailsEarly(stage, write_fails)
    \/ \E n \in 0..MaxPipeFrames : \E images \in [1..n -> PipelineImages] :
          AnalyzeStart(n, images)
    \/ \E fault \in {"none", "open"} : \E cli \in BOOLEAN : StepInitialize(fault, cli)
    \/ \E env \in FrameEnvs : \E fault \in {"none", "open"} : StepGroup(env, fault)
    \/ \E message \in ErrorMessages : StepRaises(message)
    \/ StepAssign
    \/ \E fault \in {"none", "read"} : StepSummary(fault)
    \/ \E fault \in {"none", "open"} : StepFinalize(fault)

SpecPipeline == InitPipeline /\ [][NextPipeline]_vars

\* C21: when analyze has called finalize and returned, the calls made on the
\* report generator are initialize, then only append_frame_analysis calls,
\* then exactly one insert_summary, then finalize, and the report file no
\* longer holds the summary placeholder, whatever the number of groups and
\* of successful analyses.
C21_SummarizedBeforeFinalize ==
    pipeline.pc = "returned"
        => /\ Len(calls) >= 3
           /\ calls[1].op = "initialize"
           /\ calls[Len(calls)].op = "finalize"
           /\ calls[Len(calls) - 1].op = "insert_summary"
           /\ \A j \in 2..(Len(calls) - 2) : calls[j].op = "append_frame_analysis"
           /\ ~Contains(report_file.content, Placeholder)

\* The starts of the frame sections of content, in file order.
RECURSIVE SectionStarts(_)
SectionStarts(content) ==
    IF content = <<>> THEN <<>>
    ELSE (IF Head(content).k = "frame_heading" THEN <<Head(content).a>> ELSE <<>>)
            \o SectionStarts(Tail(content))

\* C22: at every point of a run of analyze the report file holds one
\* section for each group handled so far, in the order of the groups, which
\* is by non-decreasing start_time, whether the analysis succeeded, failed or
\* the claude command was unavailable; and once finalize was called no
\* append_frame_analysis call follows.
C22_OneSectionPerGroupInOrder ==
    /\ pipeline.pc \in {"step8", "step9", "finalize", "returned"}
        => /\ SectionStarts(report_file.content)
                = [i \in 1..pipeline.idx |-> pipeline.groups[i].start_time]
           /\ \A i \in 1..(pipeline.idx - 1) :
                pipeline.groups[i].start_time <= pipeline.groups[i + 1].start_time
    /\ pipeline.pc = "returned" => pipeline.idx = Len(pipeline.groups)
    /\ \A i \in 1..Len(calls) : \A j \in (i + 1)..Len(calls) :
          calls[i].op = "finalize" => calls[j].op # "append_frame_analysis"

\* C25: when analyze has failed after k groups were analyzed successfully,
\* what it handed to save_partial_report or save_error_state counts those k
\* analyses, and the failure was raised to the caller.
C25_AnalysesHandedOnFailure ==
    pipeline.pc = "raised"
        => /\ pipeline.raised # "none"
           /\ pipeline.succeeded > 0 => pipeline.handed.to # "none"
           /\ pipeline.handed.to # "none"
                => pipeline.handed.analyses_count = pipeline.succeeded

====
